---- MODULE Spec2Model ----
(***************************************************************************)
(* A model of the stratigraphy and experiment-idealization core of         *)
(* SoilRust: SoilProfile (src/models/soil_profile.rs) and the CPT, SPT and *)
(* point-load collections (src/models/cpt.rs, spt.rs, point_load_test.rs), *)
(* and of the functions built on them: the NValue arithmetic (spt.rs),     *)
(* validate_field (src/validation.rs), compute_equivalent_unit_weights     *)
(* (src/bearing_capacity/helper_functions.rs) and calc_effective_depth     *)
(* with its bisection (src/effective_depth.rs).                            *)
(*                                                                         *)
(* Numbers.  The code computes in f64; the model computes exactly, in      *)
(* fixed point:                                                            *)
(*   - a length (thickness, depth, center, ground water level) is an       *)
(*     integer number of half metres, and every thickness is even, so that *)
(*     thickness / 2.0 is exact;                                           *)
(*   - a unit weight is an integer number of 0.001 t/m3 (1.0 is 1000,      *)
(*     0.981 is 981);                                                      *)
(*   - a stress is weight x length, an integer number of 0.0005 t/m2.      *)
(* The specification of calc_effective_depth has its own, finer units,     *)
(* given where it starts.                                                  *)
(* An Option<T> is a set: None is {}, Some(v) is {v}.                      *)
(***************************************************************************)
EXTENDS Integers, Sequences, FiniteSets, TLC

VARIABLES
    layers,               \* SoilProfile.layers: Seq of SoilLayer
    ground_water_level,   \* SoilProfile.ground_water_level: Option
    pc,                   \* "raw": built, depths not computed; "ready"; "aborted"
    ret,                  \* the last query on the profile and what it returned
    kind,                 \* the collection at hand: "CPT", "SPT" or "PointLoad"
    exps,                 \* its exps: Seq of experiments, each a Seq of records
    idealization_method,  \* its idealization_method: "Min", "Avg" or "Max"
    idealized,            \* what get_idealized_exp returned, once called
    call,                 \* a free function or NValue method called, with its arguments
    outcome,              \* what that call returned, once it has
    solver                \* the locals of find_effective_depth while it runs

profile_vars == <<layers, ground_water_level, pc, ret>>

collection_vars == <<kind, exps, idealization_method, idealized>>

function_vars == <<call, outcome, solver>>

vars == <<layers, ground_water_level, pc, ret, kind, exps, idealization_method, idealized,
          call, outcome, solver>>

----------------------------------------------------------------------------
(* Option<T> *)

None == {}

Some(v) == {v}

unwrap(o) == CHOOSE v \in o : TRUE

unwrap_or(o, default) == IF o = None THEN default ELSE unwrap(o)

----------------------------------------------------------------------------
(* Bounds and input domains of the profile model *)

MaxLayers == 2

MaxQueryDepth == 7

\* thickness in half metres: -1 m, 0 m, 1 m, 2 m
Thicknesses == {-2, 0, 2, 4}

\* 1.0 t/m3 (the limit itself) and 1.8 t/m3
DryUnitWeights == {Some(1000), Some(1800)}

\* an absent weight and 2.0 t/m3
SaturatedUnitWeights == {None, Some(2000)}

\* at the surface, 1.5 m down, and 1 m above the surface
GroundWaterLevels == {-2, 0, 3}

\* what depth and center hold before calc_layer_depths: nothing, or old values
StaleDepthCenter == {[depth |-> None, center |-> None], [depth |-> Some(9), center |-> Some(1)]}

QueryDepths == 0 .. MaxQueryDepth

\* the minimum valid unit weight, 1.0 t/m3
MinUnitWeight == 1000

\* the unit weight of water, 0.981 t/m3
WaterUnitWeight == 981

SoilLayer(thickness, dry, sat, stale) ==
    [thickness |-> Some(thickness), dry_unit_weight |-> dry,
     saturated_unit_weight |-> sat, depth |-> stale.depth, center |-> stale.center]

----------------------------------------------------------------------------
(* SoilProfile *)

RECURSIVE calc_layer_depths_loop(_, _, _)
calc_layer_depths_loop(ls, i, bottom) ==
    IF i > Len(ls) THEN ls
    ELSE LET thickness == unwrap(ls[i].thickness)
             layer == [ls[i] EXCEPT !.center = Some(bottom + thickness \div 2),
                                    !.depth = Some(bottom + thickness)]
         IN  calc_layer_depths_loop([ls EXCEPT ![i] = layer], i + 1, bottom + thickness)

\* the layers as calc_layer_depths leaves them
calc_layer_depths(ls) ==
    IF ls = <<>> THEN ls ELSE calc_layer_depths_loop(ls, 1, 0)

\* layer.depth is present and reaches the queried depth
layer_reaches_strictly(layer, depth) == layer.depth # None /\ unwrap(layer.depth) > depth

layer_reaches(layer, depth) == layer.depth # None /\ unwrap(layer.depth) >= depth

RECURSIVE get_layer_index_loop(_, _, _)
get_layer_index_loop(ls, depth, i) ==
    IF i >= Len(ls) THEN Len(ls) - 1
    ELSE IF layer_reaches(ls[i + 1], depth) THEN i
    ELSE get_layer_index_loop(ls, depth, i + 1)

\* the index, counted from 0 as in the code, of the layer at a depth
get_layer_index(ls, depth) == get_layer_index_loop(ls, depth, 0)

get_layer_at_depth(ls, depth) == ls[get_layer_index(ls, depth) + 1]

Returned(v) == [panicked |-> FALSE, value |-> v]

Panicked == [panicked |-> TRUE, value |-> 0]

\* the thickness a layer contributes: the last layer only down to the depth
layer_thickness_always_full(layer, i, layer_index, depth, previous_depth) ==
    unwrap(layer.thickness)

layer_thickness(layer, i, layer_index, depth, previous_depth) ==
    IF i = layer_index THEN depth - previous_depth ELSE unwrap(layer.thickness)

\* the check that panics: neither weight of the layer exceeds 1.0
unit_weights_rejected(dry_unit_weight, saturated_unit_weight) ==
    dry_unit_weight <= MinUnitWeight /\ saturated_unit_weight <= MinUnitWeight

\* the stress one layer adds, split at the ground water table
layer_stress(dry_unit_weight, saturated_unit_weight, gwt, previous_depth, thickness) ==
    IF gwt >= previous_depth + thickness
        THEN dry_unit_weight * thickness
    ELSE IF gwt <= previous_depth
        THEN saturated_unit_weight * thickness
    ELSE LET dry_thickness == gwt - previous_depth
             submerged_thickness == thickness - dry_thickness
         IN  dry_unit_weight * dry_thickness + saturated_unit_weight * submerged_thickness

RECURSIVE calc_normal_stress_loop(_, _, _, _, _, _, _)
calc_normal_stress_loop(ls, gwt, depth, layer_index, i, total_stress, previous_depth) ==
    IF i > layer_index THEN Returned(total_stress)
    ELSE LET layer == ls[i + 1]
             thickness == layer_thickness(layer, i, layer_index, depth, previous_depth)
             dry_unit_weight == unwrap_or(layer.dry_unit_weight, 0)
             saturated_unit_weight == unwrap_or(layer.saturated_unit_weight, 0)
         IN  IF unit_weights_rejected(dry_unit_weight, saturated_unit_weight)
             THEN Panicked
             ELSE calc_normal_stress_loop(ls, gwt, depth, layer_index, i + 1,
                      total_stress + layer_stress(dry_unit_weight, saturated_unit_weight,
                                                  gwt, previous_depth, thickness),
                      previous_depth + thickness)

calc_normal_stress(ls, gwl, depth) ==
    calc_normal_stress_loop(ls, unwrap(gwl), depth, get_layer_index(ls, depth), 0, 0, 0)

\* the hydrostatic pressure below the ground water level
pore_pressure_from_surface(gwl, depth) == depth * WaterUnitWeight

pore_pressure(gwl, depth) == (depth - unwrap(gwl)) * WaterUnitWeight

calc_effective_stress(ls, gwl, depth) ==
    LET normal_stress == calc_normal_stress(ls, gwl, depth)
    IN  IF normal_stress.panicked THEN Panicked
        ELSE IF unwrap(gwl) >= depth THEN normal_stress
        ELSE Returned(normal_stress.value - pore_pressure(gwl, depth))

----------------------------------------------------------------------------
(* The profile as a state machine *)

NotIdealized == [status |-> "none", name |-> "", records |-> <<>>]

\* no function has been called
NoCalled == [fn |-> "none"]

NotReturned == [status |-> "none"]

NoSolver == [pc |-> "none"]

NoFunction ==
    /\ call = NoCalled
    /\ outcome = NotReturned
    /\ solver = NoSolver

NoCollection ==
    /\ kind = "none"
    /\ exps = <<>>
    /\ idealization_method = "Min"
    /\ idealized = NotIdealized

NoCall == [op |-> "none", depth |-> 0, panicked |-> FALSE, value |-> 0]

Call(op, depth, r) == [op |-> op, depth |-> depth, panicked |-> r.panicked, value |-> r.value]

RawLayers ==
    UNION {[1 .. n -> {SoilLayer(t, dw, sw, st) :
                          t \in Thicknesses, dw \in DryUnitWeights,
                          sw \in SaturatedUnitWeights, st \in StaleDepthCenter}]
           : n \in 0 .. MaxLayers}

InitProfile ==
    /\ layers \in RawLayers
    /\ \A i, j \in DOMAIN layers : layers[i].depth = layers[j].depth
    /\ ground_water_level \in {Some(g) : g \in GroundWaterLevels}
    /\ pc = "raw"
    /\ ret = NoCall
    /\ NoCollection
    /\ NoFunction

\* SoilProfile::new(layers, ground_water_level)
New ==
    /\ pc = "raw"
    /\ IF layers = <<>>
       THEN pc' = "aborted" /\ layers' = layers
       ELSE pc' = "ready" /\ layers' = calc_layer_depths(layers)
    /\ UNCHANGED <<ground_water_level, ret, collection_vars, function_vars>>

\* profile.calc_layer_depths(), on a profile built field by field or run again
CalcLayerDepths ==
    /\ pc \in {"raw", "ready"}
    /\ layers' = calc_layer_depths(layers)
    /\ pc' = "ready"
    /\ UNCHANGED <<ground_water_level, ret, collection_vars, function_vars>>

\* the queries are made after calc_layer_depths, on a profile that has layers
DepthsComputed == pc = "ready" /\ layers # <<>>

\* A query takes &self and leaves the profile as it is: a second query finds
\* the profile a first one would, so a behaviour makes one query.
Queryable == DepthsComputed /\ ret = NoCall

GetLayerIndex(depth) ==
    /\ Queryable
    /\ ret' = Call("get_layer_index", depth, Returned(get_layer_index(layers, depth)))
    /\ UNCHANGED <<layers, ground_water_level, pc, collection_vars, function_vars>>

CalcNormalStress(depth) ==
    /\ Queryable
    /\ ret' = Call("calc_normal_stress", depth,
                   calc_normal_stress(layers, ground_water_level, depth))
    /\ UNCHANGED <<layers, ground_water_level, pc, collection_vars, function_vars>>

CalcEffectiveStress(depth) ==
    /\ Queryable
    /\ ret' = Call("calc_effective_stress", depth,
                   calc_effective_stress(layers, ground_water_level, depth))
    /\ UNCHANGED <<layers, ground_water_level, pc, collection_vars, function_vars>>

NextProfile ==
    \/ New
    \/ CalcLayerDepths
    \/ \E depth \in QueryDepths : GetLayerIndex(depth)
    \/ \E depth \in QueryDepths : CalcNormalStress(depth)
    \/ \E depth \in QueryDepths : CalcEffectiveStress(depth)

SpecProfile == InitProfile /\ [][NextProfile]_vars

----------------------------------------------------------------------------
(* Experiment collections: CPT, SPT, PointLoadTest, Masw                   *)
(*                                                                         *)
(* A depth is an integer number of half metres.  A measured f64 (cone      *)
(* resistance, sleeve friction, pore pressure, is50, d) is an integer      *)
(* number of 1/Unit, and the source values are multiples of Unit, so that  *)
(* every mean the code takes is exact.  A blow count is an i32.            *)

MaxExps == 2

\* the records of a collection, all its experiments together
MaxRecords == 3

RecordDepths == {1, 2}

SelectionMethod == {"Min", "Avg", "Max"}

RECURSIVE Factorial(_)
Factorial(n) == IF n <= 1 THEN 1 ELSE n * Factorial(n - 1)

Unit == Factorial(MaxRecords)

RECURSIVE SumSeq(_)
\* values.iter().sum()
SumSeq(values) == IF values = <<>> THEN 0 ELSE Head(values) + SumSeq(Tail(values))

RECURSIVE Flatten(_)
\* for exp in &self.exps { for record in &exp.records { ... } }: the records
\* of all experiments in the order the nested loops visit them
Flatten(es) == IF es = <<>> THEN <<>> ELSE Head(es) \o Flatten(Tail(es))

RECURSIVE ascending(_)
\* a BTreeSet or BTreeMap yields its keys in ascending order
ascending(keys) ==
    IF keys = {} THEN <<>>
    ELSE LET least == CHOOSE x \in keys : \A y \in keys : x <= y
         IN  <<least>> \o ascending(keys \ {least})

\* the names an idealized experiment is asked for under
Names == {"Ideal_A", "Ideal_B"}

\* the experiment returned without the name asked for
ReturnedExp_unnamed(name, records) == [status |-> "returned", name |-> "", records |-> records]

\* XExp::new(records, name), returned to the caller
ReturnedExp(name, records) == [status |-> "returned", name |-> name, records |-> records]

\* the call panicked: nothing is returned
PanickedExp == [status |-> "panicked", name |-> "", records |-> <<>>]

----------------------------------------------------------------------------
(* CPT *)

CPTLayer(depth, qc, fs, u2) ==
    [depth |-> depth, cone_resistance |-> qc, sleeve_friction |-> fs, pore_pressure |-> u2]

\* the source layers: two readings at each depth
CPTLayers ==
    {CPTLayer(depth, Unit, 2 * Unit, None) : depth \in RecordDepths}
        \cup {CPTLayer(depth, 2 * Unit, Unit, Some(Unit)) : depth \in RecordDepths}

RECURSIVE find_at_or_below_strictly(_, _)
find_at_or_below_strictly(records, depth) ==
    IF records = <<>> THEN None
    ELSE IF Head(records).depth > depth THEN Some(Head(records))
    ELSE find_at_or_below_strictly(Tail(records), depth)

RECURSIVE find_at_or_below(_, _)
\* records.iter().find(|r| r.depth.unwrap() >= depth)
find_at_or_below(records, depth) ==
    IF records = <<>> THEN None
    ELSE IF Head(records).depth >= depth THEN Some(Head(records))
    ELSE find_at_or_below(Tail(records), depth)

\* the first record in place of the last
last_replaced_by_first(records) == IF records = <<>> THEN None ELSE Some(records[1])

\* records.last()
last(records) == IF records = <<>> THEN None ELSE Some(records[Len(records)])

\* CPTExp::get_layer_at_depth: None stands for the panic of last().unwrap()
CPTExp_get_layer_at_depth(exp_layers, depth) ==
    IF find_at_or_below(exp_layers, depth) # None
    THEN find_at_or_below(exp_layers, depth)
    ELSE last(exp_layers)

RECURSIVE fold_min(_)
\* values.iter().cloned().fold(f64::INFINITY, f64::min), values not empty
fold_min(values) ==
    IF Len(values) = 1 THEN values[1]
    ELSE LET rest == fold_min(Tail(values))
         IN  IF values[1] <= rest THEN values[1] ELSE rest

\* the first value, whatever the others are
fold_max_first(values) == values[1]

RECURSIVE fold_max(_)
\* values.iter().cloned().fold(f64::NEG_INFINITY, f64::max), values not empty
fold_max(values) ==
    IF Len(values) = 1 THEN values[1]
    ELSE LET rest == fold_max(Tail(values))
         IN  IF values[1] >= rest THEN values[1] ELSE rest

\* the closure get_mode_value of CPT::get_idealized_exp
get_mode_value(mode, values) ==
    CASE mode = "Min" -> fold_min(values)
      [] mode = "Avg" -> SumSeq(values) \div Len(values)
      [] mode = "Max" -> fold_max(values)

\* the depths of the first experiment only
CPT_unique_depths_of_first(es) == {es[1][i].depth : i \in DOMAIN es[1]}

\* the BTreeSet of the depths of all layers of all experiments
CPT_unique_depths(es) == {Flatten(es)[i].depth : i \in DOMAIN Flatten(es)}

CPT_get_idealized_exp(es, mode, name) ==
    IF es = <<>> THEN ReturnedExp(name, <<>>)
    ELSE LET sorted_depths == ascending(CPT_unique_depths(es))
             at(e, depth) == CPTExp_get_layer_at_depth(es[e], depth)
         IN  IF \E k \in DOMAIN sorted_depths, e \in DOMAIN es : at(e, sorted_depths[k]) = None
             THEN PanickedExp
             ELSE ReturnedExp(name,
                 [k \in DOMAIN sorted_depths |->
                     LET depth == sorted_depths[k]
                         qc_at_depth == [e \in DOMAIN es |-> unwrap(at(e, depth)).cone_resistance]
                         fs_at_depth == [e \in DOMAIN es |-> unwrap(at(e, depth)).sleeve_friction]
                         u2_at_depth == [e \in DOMAIN es |->
                                            unwrap_or(unwrap(at(e, depth)).pore_pressure, 0)]
                     IN  CPTLayer(depth, get_mode_value(mode, qc_at_depth),
                                  get_mode_value(mode, fs_at_depth),
                                  Some(get_mode_value(mode, u2_at_depth)))])

----------------------------------------------------------------------------
(* SPT *)

Value(n) == [tag |-> "Value", n |-> n]

Refusal == [tag |-> "Refusal", n |-> 0]

\* the blow count refusal stands for
RefusalBlows == 50

\* the default, a count whose mean with Refusal ends in .5, and Refusal
NValues == {Value(0), Value(15), Refusal}

SPTBlow(depth, n) == [depth |-> depth, n |-> n]

SPTBlows == {SPTBlow(depth, n) : depth \in RecordDepths, n \in NValues}

\* NValue::to_option, always Some
NValue_to_option(n) == IF n.tag = "Refusal" THEN Some(RefusalBlows) ELSE Some(n.n)

\* an order with Refusal below every count
NValue_le_refusal_lowest(a, b) ==
    a.tag = "Refusal" \/ (b.tag # "Refusal" /\ a.n <= b.n)

\* Ord for NValue: a <= b
NValue_le(a, b) ==
    CASE a.tag = "Refusal" /\ b.tag = "Refusal" -> TRUE
      [] a.tag = "Refusal" /\ b.tag # "Refusal" -> FALSE
      [] a.tag # "Refusal" /\ b.tag = "Refusal" -> TRUE
      [] OTHER -> a.n <= b.n

RECURSIVE NValue_min(_)
\* n_values.iter().min().unwrap()
NValue_min(n_values) ==
    IF Len(n_values) = 1 THEN n_values[1]
    ELSE LET rest == NValue_min(Tail(n_values))
         IN  IF NValue_le(n_values[1], rest) THEN n_values[1] ELSE rest

RECURSIVE NValue_max(_)
\* n_values.iter().max().unwrap()
NValue_max(n_values) ==
    IF Len(n_values) = 1 THEN n_values[1]
    ELSE LET rest == NValue_max(Tail(n_values))
         IN  IF NValue_le(n_values[1], rest) THEN rest ELSE n_values[1]

\* the quotient with its fractional part dropped
round_div_truncating(sum, count) == sum \div count

\* (sum / count as f64).round(): to the nearest integer, halves away from zero
round_div(sum, count) ==
    IF sum >= 0 THEN (2 * sum + count) \div (2 * count)
    ELSE 0 - ((2 * (0 - sum) + count) \div (2 * count))

\* a conversion that lets a count of zero through
NValue_from_i32_accepting_zero(n) == IF n < 0 THEN None ELSE Some(Value(n))

\* NValue::from_i32: None stands for its panic
NValue_from_i32(n) == IF n <= 0 THEN None ELSE Some(Value(n))

\* what the loop pushed under a key of the BTreeMap: the records at or below it
entries_at_or_below(records, depth) == SelectSeq(records, LAMBDA r : r.depth >= depth)

\* what the loop pushed under a key of the BTreeMap depth_map, in the order pushed
entries_at(records, depth) == SelectSeq(records, LAMBDA r : r.depth = depth)

\* the keys of depth_map
depth_keys(records) == {records[i].depth : i \in DOMAIN records}

\* the match on mode of SPT::get_idealized_exp: None stands for a panic
SPT_selected_n(mode, n_values) ==
    CASE mode = "Min" -> Some(NValue_min(n_values))
      [] mode = "Max" -> Some(NValue_max(n_values))
      [] mode = "Avg" ->
            LET sum == SumSeq([i \in DOMAIN n_values |-> unwrap(NValue_to_option(n_values[i]))])
                count == Len(n_values)
            IN  NValue_from_i32(round_div(sum, count))

SPT_get_idealized_exp(es, mode, name) ==
    LET blows == Flatten(es)
        depths == ascending(depth_keys(blows))
        n_values(depth) == [i \in DOMAIN entries_at(blows, depth) |->
                               entries_at(blows, depth)[i].n]
        selected_n(depth) == SPT_selected_n(mode, n_values(depth))
    IN  IF \E k \in DOMAIN depths : selected_n(depths[k]) = None
        THEN PanickedExp
        ELSE ReturnedExp(name, [k \in DOMAIN depths |->
                                   SPTBlow(depths[k], unwrap(selected_n(depths[k])))])

----------------------------------------------------------------------------
(* PointLoadTest *)

PointLoadSample(depth, is50, d) == [depth |-> depth, is50 |-> is50, d |-> d]

\* the source samples: two of them with the same is50 and different d
PointLoadSamples ==
    {PointLoadSample(depth, r[1] * Unit, r[2] * Unit) :
        depth \in RecordDepths, r \in {<<1, 1>>, <<1, 2>>, <<2, 1>>}}

\* the pair pushed first, whatever its is50
min_by_is50_first_pushed(pairs) == pairs[1]

RECURSIVE min_by_is50(_)
\* iter().min_by_key(|&(is50, _)| is50): of several least, the first
min_by_is50(pairs) ==
    IF Len(pairs) = 1 THEN pairs[1]
    ELSE LET rest == min_by_is50(Tail(pairs))
         IN  IF pairs[1].is50 <= rest.is50 THEN pairs[1] ELSE rest

RECURSIVE max_by_is50(_)
\* iter().max_by_key(|&(is50, _)| is50): of several greatest, the last
max_by_is50(pairs) ==
    IF Len(pairs) = 1 THEN pairs[1]
    ELSE LET rest == max_by_is50(Tail(pairs))
         IN  IF pairs[1].is50 > rest.is50 THEN pairs[1] ELSE rest

\* the match on mode of PointLoadTest::get_idealized_exp
PointLoad_selected_is50(mode, is50_d_pairs) ==
    CASE mode = "Min" -> min_by_is50(is50_d_pairs)
      [] mode = "Max" -> max_by_is50(is50_d_pairs)
      [] mode = "Avg" ->
            LET sum_is50 == SumSeq([i \in DOMAIN is50_d_pairs |-> is50_d_pairs[i].is50])
                sum_d == SumSeq([i \in DOMAIN is50_d_pairs |-> is50_d_pairs[i].d])
                count == Len(is50_d_pairs)
            IN  [is50 |-> sum_is50 \div count, d |-> sum_d \div count]

\* PointLoadExp::get_sample_at_depth: None stands for the panic of
\* last().unwrap()
PointLoadExp_get_sample_at_depth(samples, depth) ==
    IF find_at_or_below(samples, depth) # None
    THEN find_at_or_below(samples, depth)
    ELSE last(samples)

PointLoad_get_idealized_exp(es, mode, name) ==
    IF es = <<>> THEN ReturnedExp(name, <<>>)
    ELSE LET samples == Flatten(es)
             depths == ascending(depth_keys(samples))
             selected(depth) == PointLoad_selected_is50(mode, entries_at(samples, depth))
         IN  ReturnedExp(name, [k \in DOMAIN depths |->
                 PointLoadSample(depths[k], selected(depths[k]).is50, selected(depths[k]).d)])

----------------------------------------------------------------------------
(* MASW                                                                    *)
(*                                                                         *)
(* A thickness is an integer, and the source thicknesses are even, so that *)
(* the midpoint of two layer boundaries is an integer too.                 *)

\* MaswLayer::new(thickness, vs, vp): no depth yet
MaswLayer(thickness, vs, vp) ==
    [thickness |-> thickness, vs |-> vs, vp |-> vp, depth |-> None]

\* a thickness calc_depths rejects and two it accepts
MaswThicknesses == {0, 2, 4}

\* the source layers: two readings at each thickness
MaswLayers ==
    {MaswLayer(thickness, r[1] * Unit, r[2] * Unit) :
        thickness \in MaswThicknesses, r \in {<<1, 2>>, <<2, 1>>}}

RECURSIVE MaswExp_calc_depths_loop(_, _)
\* the loop of MaswExp::calc_depths from the given bottom on: None stands for
\* its panic on a thickness <= 0
MaswExp_calc_depths_loop(exp_layers, bottom) ==
    IF exp_layers = <<>> THEN Some(<<>>)
    ELSE LET thickness == Head(exp_layers).thickness
             rest == MaswExp_calc_depths_loop(Tail(exp_layers), bottom + thickness)
         IN  IF thickness <= 0 \/ rest = None THEN None
             ELSE Some(<<[Head(exp_layers) EXCEPT !.depth = Some(bottom + thickness)]>>
                           \o unwrap(rest))

\* every layer given its own thickness as its depth
MaswExp_calc_depths_not_cumulative(exp_layers) ==
    Some([i \in DOMAIN exp_layers |->
             [exp_layers[i] EXCEPT !.depth = Some(exp_layers[i].thickness)]])

\* MaswExp::calc_depths, and MaswExp::new which calls it: the layers with
\* their depths assigned, None for a panic
MaswExp_calc_depths(exp_layers) == MaswExp_calc_depths_loop(exp_layers, 0)

RECURSIVE Masw_calc_depths(_)
\* Masw::calc_depths, and Masw::new which runs the same loop: None for a panic
Masw_calc_depths(es) ==
    IF es = <<>> THEN Some(<<>>)
    ELSE LET first == MaswExp_calc_depths(Head(es))
             rest == Masw_calc_depths(Tail(es))
         IN  IF first = None \/ rest = None THEN None
             ELSE Some(<<unwrap(first)>> \o unwrap(rest))

RECURSIVE MaswExp_find(_, _)
\* layers.iter().find(|exp| exp.depth.unwrap() >= depth): the layer found, if
\* any, or the panic of unwrap on a layer that has no depth
MaswExp_find(exp_layers, depth) ==
    IF exp_layers = <<>> THEN [panicked |-> FALSE, found |-> None]
    ELSE IF Head(exp_layers).depth = None THEN [panicked |-> TRUE, found |-> None]
    ELSE IF unwrap(Head(exp_layers).depth) >= depth
         THEN [panicked |-> FALSE, found |-> Some(Head(exp_layers))]
    ELSE MaswExp_find(Tail(exp_layers), depth)

\* MaswExp::get_layer_at_depth: None stands for a panic
MaswExp_get_layer_at_depth(exp_layers, depth) ==
    LET search == MaswExp_find(exp_layers, depth)
    IN  IF search.panicked THEN None
        ELSE IF search.found # None THEN search.found
        ELSE last(exp_layers)

\* the depth the experiments are sampled at for the interval: its top
sampling_depth_at_top(top, bottom) == top

\* the depth the experiments are sampled at for the interval [top, bottom]
sampling_depth(top, bottom) == (top + bottom) \div 2

\* the depths of all layers, without the surface
Masw_unique_depths_without_surface(es) ==
    {unwrap(Flatten(es)[i].depth) : i \in DOMAIN Flatten(es)}

\* the BTreeSet of the surface and of the depths of all layers
Masw_unique_depths(es) ==
    {0} \cup {unwrap(Flatten(es)[i].depth) : i \in DOMAIN Flatten(es)}

\* Masw::get_idealized_exp(&mut self, name): the experiment returned and the
\* experiments of the collection as the call leaves them
Masw_get_idealized_exp(es, mode, name) ==
    IF es = <<>> THEN [result |-> ReturnedExp(name, <<>>), exps |-> es]
    ELSE IF Masw_calc_depths(es) = None THEN [result |-> PanickedExp, exps |-> es]
    ELSE LET computed == unwrap(Masw_calc_depths(es))
             sorted_depths == ascending(Masw_unique_depths(computed))
             windows == 1 .. Len(sorted_depths) - 1
             at(e, k) == MaswExp_get_layer_at_depth(
                             computed[e], sampling_depth(sorted_depths[k], sorted_depths[k + 1]))
             idealized_layers ==
                 [k \in windows |->
                     MaswLayer(sorted_depths[k + 1] - sorted_depths[k],
                               get_mode_value(mode, [e \in DOMAIN computed |-> unwrap(at(e, k)).vs]),
                               get_mode_value(mode, [e \in DOMAIN computed |-> unwrap(at(e, k)).vp]))]
         IN  IF \E k \in windows, e \in DOMAIN computed : at(e, k) = None
             THEN [result |-> PanickedExp, exps |-> computed]
             ELSE [result |-> ReturnedExp(name, unwrap(MaswExp_calc_depths(idealized_layers))),
                   exps |-> computed]

----------------------------------------------------------------------------
(* The collections as a state machine *)

RecordsOf(k) ==
    CASE k = "CPT" -> CPTLayers
      [] k = "SPT" -> SPTBlows
      [] k = "PointLoad" -> PointLoadSamples
      [] k = "Masw" -> MaswLayers

\* how many records each of m experiments holds
RecordCounts(m) == {counts \in [1 .. m -> 0 .. MaxRecords] : SumSeq(counts) <= MaxRecords}

\* the records cut into experiments of the given lengths
RECURSIVE Split(_, _)
Split(records, counts) ==
    IF counts = <<>> THEN <<>>
    ELSE <<SubSeq(records, 1, Head(counts))>>
             \o Split(SubSeq(records, Head(counts) + 1, Len(records)), Tail(counts))

NoProfile ==
    /\ layers = <<>>
    /\ ground_water_level = None
    /\ pc = "none"
    /\ ret = NoCall

\* a MASW collection whose experiments were built as struct literals and
\* added with add_exp, or the same collection passed through Masw::new
MaswCollectionsOf(raw) ==
    {raw} \cup (IF Masw_calc_depths(raw) = None THEN {} ELSE {unwrap(Masw_calc_depths(raw))})

InitIdeal ==
    /\ kind \in {"CPT", "SPT", "PointLoad", "Masw"}
    \* every collection of at most MaxExps experiments and MaxRecords records
    /\ \E m \in 0 .. MaxExps : \E counts \in RecordCounts(m) :
          \E all \in [1 .. SumSeq(counts) -> RecordsOf(kind)] :
              exps \in (IF kind = "Masw" THEN MaswCollectionsOf(Split(all, counts))
                        ELSE {Split(all, counts)})
    /\ idealization_method \in SelectionMethod
    /\ idealized = NotIdealized
    /\ NoProfile
    /\ NoFunction

\* CPT::get_idealized_exp(&self, name)
IdealizeCPT(name) ==
    /\ kind = "CPT" /\ idealized = NotIdealized
    /\ idealized' = CPT_get_idealized_exp(exps, idealization_method, name)
    /\ UNCHANGED <<kind, exps, idealization_method, profile_vars, function_vars>>

\* SPT::get_idealized_exp(&self, name)
IdealizeSPT(name) ==
    /\ kind = "SPT" /\ idealized = NotIdealized
    /\ idealized' = SPT_get_idealized_exp(exps, idealization_method, name)
    /\ UNCHANGED <<kind, exps, idealization_method, profile_vars, function_vars>>

\* PointLoadTest::get_idealized_exp(&self, name)
IdealizePointLoad(name) ==
    /\ kind = "PointLoad" /\ idealized = NotIdealized
    /\ idealized' = PointLoad_get_idealized_exp(exps, idealization_method, name)
    /\ UNCHANGED <<kind, exps, idealization_method, profile_vars, function_vars>>

\* Masw::get_idealized_exp(&mut self, name)
IdealizeMasw(name) ==
    /\ kind = "Masw" /\ idealized = NotIdealized
    /\ idealized' = Masw_get_idealized_exp(exps, idealization_method, name).result
    /\ exps' = Masw_get_idealized_exp(exps, idealization_method, name).exps
    /\ UNCHANGED <<kind, idealization_method, profile_vars, function_vars>>

NextIdeal ==
    \/ \E name \in Names : IdealizeCPT(name)
    \/ \E name \in Names : IdealizeSPT(name)
    \/ \E name \in Names : IdealizePointLoad(name)
    \/ \E name \in Names : IdealizeMasw(name)

SpecIdeal == InitIdeal /\ [][NextIdeal]_vars

----------------------------------------------------------------------------
(* The record lookup of one experiment as a state machine *)

\* one experiment of at most MaxRecords records, held as the only experiment
\* of a collection that is not idealized
InitLookup ==
    /\ kind \in {"CPT", "PointLoad", "Masw"}
    /\ \E n \in 0 .. MaxRecords : \E records \in [1 .. n -> RecordsOf(kind)] :
          exps \in (IF kind = "Masw" THEN MaswCollectionsOf(<<records>>) ELSE {<<records>>})
    /\ idealization_method = "Min"
    /\ idealized = NotIdealized
    /\ NoProfile
    /\ NoFunction

\* what a lookup gave: the record found, or the panic
Lookup(depth, found) ==
    Call("get_layer_at_depth", depth, IF found = None THEN Panicked ELSE Returned(unwrap(found)))

\* exp.get_layer_at_depth(depth) on a CPTExp
CPTExpGetLayerAtDepth(depth) ==
    /\ kind = "CPT" /\ ret.op = "none"
    /\ ret' = Lookup(depth, CPTExp_get_layer_at_depth(exps[1], depth))
    /\ UNCHANGED <<layers, ground_water_level, pc, collection_vars, function_vars>>

\* exp.get_layer_at_depth(depth) on a MaswExp
MaswExpGetLayerAtDepth(depth) ==
    /\ kind = "Masw" /\ ret.op = "none"
    /\ ret' = Lookup(depth, MaswExp_get_layer_at_depth(exps[1], depth))
    /\ UNCHANGED <<layers, ground_water_level, pc, collection_vars, function_vars>>

\* exp.get_sample_at_depth(depth) on a PointLoadExp
PointLoadExpGetSampleAtDepth(depth) ==
    /\ kind = "PointLoad" /\ ret.op = "none"
    /\ ret' = Lookup(depth, PointLoadExp_get_sample_at_depth(exps[1], depth))
    /\ UNCHANGED <<layers, ground_water_level, pc, collection_vars, function_vars>>

NextLookup ==
    \/ \E depth \in QueryDepths : CPTExpGetLayerAtDepth(depth)
    \/ \E depth \in QueryDepths : MaswExpGetLayerAtDepth(depth)
    \/ \E depth \in QueryDepths : PointLoadExpGetSampleAtDepth(depth)

SpecLookup == InitLookup /\ [][NextLookup]_vars

----------------------------------------------------------------------------
(* The arithmetic of NValue.  An f64 operand is an integer number of       *)
(* tenths (2.5 is 25), a blow count an i32.                                *)

\* the largest blow count that is scaled, offset and summed
MaxN == 10

\* how many tenths make one
Tenths == 10

\* the f64 operands: -1.5, 0.0, 1.9, 2.0, 2.5 and 5.5
F64Operands == {-15, 0, 19, 20, 25, 55}

\* the blow counts an operation is applied to: the i32 field is not checked
\* when the variant is built directly, so that it can be below zero
NValueOperands == {Value(n) : n \in -2 .. MaxN} \cup {Refusal}

\* f64::ceil of a number of tenths
ceil(tenths) == 0 - ((0 - tenths) \div Tenths)

\* NValue::mul_by_f64
NValue_mul_by_f64(self, factor) ==
    IF self.tag = "Value" THEN Value(ceil(self.n * factor)) ELSE Refusal

\* NValue::sum_with
NValue_sum_with(self, other) ==
    IF self.tag = "Value" /\ other.tag = "Value" THEN Value(self.n + other.n) ELSE Refusal

\* NValue::add_f64
NValue_add_f64(self, other) ==
    IF self.tag = "Value" THEN Value(ceil(self.n * Tenths + other)) ELSE Refusal

\* the call returned v
ReturnedValue(v) == [status |-> "returned", value |-> v]

NoProgram ==
    /\ NoProfile
    /\ kind = "none"
    /\ exps = <<>>
    /\ idealization_method = "Min"
    /\ idealized = NotIdealized

InitNValue ==
    /\ call \in [fn : {"mul_by_f64", "add_f64"}, self : NValueOperands, other : F64Operands]
                \cup [fn : {"sum_with"}, self : NValueOperands, other : NValueOperands]
    /\ outcome = NotReturned
    /\ solver = NoSolver
    /\ NoProgram

\* self.mul_by_f64(factor)
MulByF64 ==
    /\ call.fn = "mul_by_f64" /\ outcome = NotReturned
    /\ outcome' = ReturnedValue(NValue_mul_by_f64(call.self, call.other))
    /\ UNCHANGED <<call, solver, profile_vars, collection_vars>>

\* self.sum_with(other)
SumWith ==
    /\ call.fn = "sum_with" /\ outcome = NotReturned
    /\ outcome' = ReturnedValue(NValue_sum_with(call.self, call.other))
    /\ UNCHANGED <<call, solver, profile_vars, collection_vars>>

\* self.add_f64(other)
AddF64 ==
    /\ call.fn = "add_f64" /\ outcome = NotReturned
    /\ outcome' = ReturnedValue(NValue_add_f64(call.self, call.other))
    /\ UNCHANGED <<call, solver, profile_vars, collection_vars>>

NextNValue ==
    \/ MulByF64
    \/ SumWith
    \/ AddF64

SpecNValue == InitNValue /\ [][NextNValue]_vars

----------------------------------------------------------------------------
(* validate_field.  T is f64: a number, here an integer, or NaN, which     *)
(* PartialOrd leaves incomparable to every value.                          *)

\* the largest number a value or a bound takes
MaxValue == 3

F64(v) == [nan |-> FALSE, v |-> v]

NaN == [nan |-> TRUE, v |-> 0]

F64Values == {F64(v) : v \in 0 .. MaxValue} \cup {NaN}

OptionF64 == {None} \cup {Some(v) : v \in F64Values}

FieldNames == {"thickness", "cu"}

ErrorCodePrefixes == {"soil_profile", "layer"}

\* PartialOrd for f64: a < b and a > b, false when either is NaN
lt(a, b) == ~a.nan /\ ~b.nan /\ a.v < b.v

gt(a, b) == ~a.nan /\ ~b.nan /\ a.v > b.v

\* Display for f64, as format!("{}", v) writes it
Display(v) == IF v.nan THEN "NaN" ELSE ToString(v.v)

Ok == [status |-> "Ok"]

Err(code, message) == [status |-> "Err", code |-> code, message |-> message]

validate_field(field_name, value, min, max, error_code_prefix) ==
    IF value = None
    THEN Err(error_code_prefix \o "." \o field_name \o ".missing",
             field_name \o " must be provided.")
    ELSE LET val == unwrap(value)
         IN  IF min # None /\ lt(val, unwrap(min))
             THEN Err(error_code_prefix \o "." \o field_name \o ".too_small."
                          \o Display(unwrap(min)),
                      field_name \o " must be greater than or equal to "
                          \o Display(unwrap(min)) \o ".")
             ELSE IF max # None /\ gt(val, unwrap(max))
             THEN Err(error_code_prefix \o "." \o field_name \o ".too_large."
                          \o Display(unwrap(max)),
                      field_name \o " must be less than or equal to "
                          \o Display(unwrap(max)) \o ".")
             ELSE Ok

InitValidate ==
    /\ call \in [fn : {"validate_field"}, field_name : FieldNames, value : OptionF64,
                  min : OptionF64, max : OptionF64, error_code_prefix : ErrorCodePrefixes]
    /\ outcome = NotReturned
    /\ solver = NoSolver
    /\ NoProgram

\* validate_field(field_name, value, min, max, error_code_prefix)
ValidateField ==
    /\ call.fn = "validate_field" /\ outcome = NotReturned
    /\ outcome' = validate_field(call.field_name, call.value, call.min, call.max,
                                  call.error_code_prefix)
    /\ UNCHANGED <<call, solver, profile_vars, collection_vars>>

NextValidate == ValidateField

SpecValidate == InitValidate /\ [][NextValidate]_vars

----------------------------------------------------------------------------
(* compute_equivalent_unit_weights.  The profile is held in layers and     *)
(* ground_water_level; the weights returned are integer numbers of         *)
(* 0.001 t/m3, which is what rounding to 3 decimals leaves.                *)

\* the deepest depth limit asked for, in half metres
MaxDepthLimit == 12

\* -1 m, 2 m, 3 m and 5 m
EquivalentThicknesses == {-2, 4, 6, 10}

\* 1.7 and 1.8 t/m3 dry, 1.9 and 2.0 t/m3 saturated
EquivalentDryUnitWeights == {1700, 1800}

EquivalentSaturatedUnitWeights == {1900, 2000}

DepthLimits == 0 .. MaxDepthLimit

\* f64::round of a / b: to the nearest integer, halves away from zero
round_ratio(a, b) ==
    LET abs(x) == IF x < 0 THEN 0 - x ELSE x
        magnitude == round_div(abs(a), abs(b))
    IN  IF (a < 0) = (b < 0) THEN magnitude ELSE 0 - magnitude

\* the part of the layer above the limit, measured from the surface
partial_thickness_from_surface(depth_limit, prev_depth) == depth_limit

\* depth_limit - prev_depth, the part of the layer above the limit
partial_thickness(depth_limit, prev_depth) == depth_limit - prev_depth

RECURSIVE equivalent_sums(_, _, _, _, _)
\* the loop over the layers down to depth_index: the sums of dry and of
\* saturated weight x thickness
equivalent_sums(ls, depth_limit, depth_index, i, prev_depth) ==
    IF i > depth_index THEN [gamma_dry_sum |-> 0, gamma_saturated_sum |-> 0]
    ELSE LET layer == ls[i + 1]
             thickness == IF unwrap(layer.depth) >= depth_limit
                          THEN partial_thickness(depth_limit, prev_depth)
                          ELSE unwrap(layer.thickness)
             rest == equivalent_sums(ls, depth_limit, depth_index, i + 1,
                                     unwrap(layer.depth))
         IN  [gamma_dry_sum |->
                  unwrap(layer.dry_unit_weight) * thickness + rest.gamma_dry_sum,
              gamma_saturated_sum |->
                  unwrap(layer.saturated_unit_weight) * thickness
                      + rest.gamma_saturated_sum]

\* a quotient by zero: f64 gives an infinity or NaN, which no rounding mends
NotANumber == [status |-> "not a number", value |-> <<0, 0>>]

compute_equivalent_unit_weights(ls, depth_limit) ==
    LET depth_index == get_layer_index(ls, depth_limit)
        sums == equivalent_sums(ls, depth_limit, depth_index, 0, 0)
        bottom == unwrap(ls[Len(ls)].depth)
        total_depth == IF depth_limit <= bottom THEN depth_limit ELSE bottom
    IN  IF total_depth = 0 THEN NotANumber
        ELSE ReturnedValue(<<round_ratio(sums.gamma_dry_sum, total_depth),
                             round_ratio(sums.gamma_saturated_sum, total_depth)>>)

\* the profiles SoilProfile::new gives, every weight present
InitEquivalent ==
    /\ \E n \in 1 .. MaxLayers :
          \E raw \in [1 .. n -> {SoilLayer(t, Some(dw), Some(sw),
                                           [depth |-> None, center |-> None]) :
                                     t \in EquivalentThicknesses,
                                     dw \in EquivalentDryUnitWeights,
                                     sw \in EquivalentSaturatedUnitWeights}] :
              layers = calc_layer_depths(raw)
    /\ ground_water_level \in {Some(0), Some(3)}
    /\ pc = "ready"
    /\ ret = NoCall
    /\ NoCollection
    /\ call \in [fn : {"compute_equivalent_unit_weights"}, depth_limit : DepthLimits]
    /\ outcome = NotReturned
    /\ solver = NoSolver

\* compute_equivalent_unit_weights(&profile, depth_limit)
ComputeEquivalentUnitWeights ==
    /\ call.fn = "compute_equivalent_unit_weights" /\ outcome = NotReturned
    /\ outcome' = compute_equivalent_unit_weights(layers, call.depth_limit)
    /\ UNCHANGED <<call, solver, profile_vars, collection_vars>>

NextEquivalent == ComputeEquivalentUnitWeights

SpecEquivalent == InitEquivalent /\ [][NextEquivalent]_vars

----------------------------------------------------------------------------
(* calc_effective_depth and the bisection of find_effective_depth.         *)
(*                                                                         *)
(* In this specification a length is an integer number of 1/16 m, the grid *)
(* that stands for the representable f64 numbers: the midpoint of two      *)
(* neighbours on the grid is rounded to the even one of them, as the f64   *)
(* midpoint of two neighbouring numbers is.  A unit weight is an integer   *)
(* number of 0.001 t/m3 and a stress or pressure an integer number of      *)
(* 0.001 / 16 t/m2.  get_difference is kept exact: ten times its value is  *)
(* a whole number of stress units plus a fraction part / of.               *)

\* the highest foundation pressure, in t/m2
MaxPressure == 6

\* grid steps in one metre
Metre == 16

\* one t/m2 in stress units
TonPerSquareMetre == 1000 * Metre

\* a homogeneous profile: 10 m of dry 1.8 / saturated 2.0
HomogeneousLayers ==
    calc_layer_depths(<<SoilLayer(10 * Metre, Some(1800), Some(2000),
                                  [depth |-> None, center |-> None])>>)

\* the water table at the surface, or 2 m down
SolverGroundWaterLevels == {0, 2 * Metre}

\* foundations 1 m wide at 0 m, one grid step below 1 m, and 2 m; the length
\* is the width, twice the width, or half the width
ShallowFoundations ==
    {[foundation_depth |-> df, foundation_width |-> b, foundation_length |-> l] :
        df \in {0, Metre + 1, 2 * Metre}, b \in {Metre}, l \in {Metre \div 2, Metre, 2 * Metre}}

\* foundations 0.125 m wide at 0 and 13 m, deeper than 100 widths
NarrowFoundations ==
    {[foundation_depth |-> df, foundation_width |-> b, foundation_length |-> l] :
        df \in {0, 13 * Metre}, b \in {Metre \div 8}, l \in {Metre \div 8, Metre \div 4}}

\* the calls of calc_effective_depth: pressures up to MaxPressure t/m2 on the
\* shallow foundations and, on the narrow ones, up to the overburden at 13 m
\* and above it in steps of 7 t/m2
EffectiveDepthCalls ==
    {[fn |-> "calc_effective_depth", foundation_data |-> foundation,
      foundation_pressure |-> q * TonPerSquareMetre] :
        foundation \in ShallowFoundations, q \in 0 .. MaxPressure}
    \cup
    {[fn |-> "calc_effective_depth", foundation_data |-> foundation,
      foundation_pressure |-> 7 * q * TonPerSquareMetre] :
        foundation \in NarrowFoundations, q \in 0 .. MaxPressure}

\* effective_depth::validate_input: the first error, or Ok
validate_input(ls, gwl, foundation, foundation_pressure) ==
    LET checks ==
            (IF ls = <<>>
             THEN <<Err("soil_profile.empty",
                        "Soil profile must contain at least one layer.")>>
             ELSE <<>>)
            \o Flatten([i \in DOMAIN ls |->
                  <<validate_field("thickness",
                        {F64(v) : v \in ls[i].thickness}, Some(F64(1)), None, "soil_profile"),
                    validate_field("dry_unit_weight",
                        {F64(v) : v \in ls[i].dry_unit_weight}, Some(F64(100)),
                        Some(F64(10000)), "soil_profile"),
                    validate_field("saturated_unit_weight",
                        {F64(v) : v \in ls[i].saturated_unit_weight}, Some(F64(100)),
                        Some(F64(10000)), "soil_profile")>>])
            \o <<validate_field("ground_water_level", {F64(v) : v \in gwl},
                      Some(F64(0)), None, "soil_profile"),
                  validate_field("foundation_depth", Some(F64(foundation.foundation_depth)),
                      Some(F64(0)), None, "foundation"),
                  validate_field("foundation_width", Some(F64(foundation.foundation_width)),
                      Some(F64(1)), Some(F64(foundation.foundation_length)), "foundation"),
                  validate_field("foundation_length", Some(F64(foundation.foundation_length)),
                      Some(F64(1)), None, "foundation"),
                  validate_field("foundation_pressure", Some(F64(foundation_pressure)),
                      Some(F64(0)), None, "loads")>>
        errors == SelectSeq(checks, LAMBDA r : r # Ok)
    IN  IF errors = <<>> THEN Ok ELSE Head(errors)

\* an f64 that is a number: value x 10 = whole + part / of, 0 <= part < of
Finite(whole, part, of) == [kind |-> "finite", whole |-> whole, part |-> part, of |-> of]

PlusInfinity == [kind |-> "+inf", whole |-> 0, part |-> 0, of |-> 1]

MinusInfinity == [kind |-> "-inf", whole |-> 0, part |-> 0, of |-> 1]

NotANumberF64 == [kind |-> "NaN", whole |-> 0, part |-> 0, of |-> 1]

\* dg - 0.1 * effective_stress, with dg = f / ((b + z - df) * (l + z - df))
get_difference(z, f, b, df, l, ls, gwl) ==
    LET denominator == (b + z - df) * (l + z - df)
        effective_stress == calc_effective_stress(ls, gwl, z).value
    IN  IF denominator = 0
        THEN IF f > 0 THEN PlusInfinity ELSE IF f < 0 THEN MinusInfinity ELSE NotANumberF64
        ELSE LET numerator == IF denominator > 0 THEN 10 * f ELSE 0 - 10 * f
                 of == IF denominator > 0 THEN denominator ELSE 0 - denominator
             IN  Finite((numerator \div of) - effective_stress, numerator % of, of)

\* v > 0.0
is_positive(v) ==
    \/ v.kind = "+inf"
    \/ v.kind = "finite" /\ (v.whole > 0 \/ (v.whole = 0 /\ v.part > 0))

\* v < 0.0
is_negative(v) == v.kind = "-inf" \/ (v.kind = "finite" /\ v.whole < 0)

\* 0.01 t/m2, in tenths of a stress unit
Tolerance == (10 * TonPerSquareMetre) \div 100

\* v.abs() > 0.01: false for NaN
exceeds_tolerance(v) ==
    \/ v.kind \in {"+inf", "-inf"}
    \/ v.kind = "finite" /\ v.whole > Tolerance
    \/ v.kind = "finite" /\ v.whole = Tolerance /\ v.part > 0
    \/ v.kind = "finite" /\ v.whole < 0 - Tolerance

\* (boundary1 + boundary2) / 2.0: between two neighbours, the even one
midpoint(boundary1, boundary2) ==
    LET sum == boundary1 + boundary2
        lower == sum \div 2
    IN  IF sum % 2 = 0 \/ lower % 2 = 0 THEN lower ELSE lower + 1

\* the loop goes on while n is at most 100
within_iteration_cap_inclusive(n) == n <= 100

\* n < 100
within_iteration_cap(n) == n < 100

\* the locals of find_effective_depth when its loop is entered
find_effective_depth(f, b, df, l, ls, gwl) ==
    LET boundary1 == df
        boundary2 == df + (3 * b) \div 2
        at_boundary1 == get_difference(boundary1, f, b, df, l, ls, gwl)
        at_boundary2 == get_difference(boundary2, f, b, df, l, ls, gwl)
        same_sign == \/ is_positive(at_boundary1) /\ is_positive(at_boundary2)
                     \/ is_negative(at_boundary1) /\ is_negative(at_boundary2)
    IN  [pc |-> "loop", f |-> f,
         boundary1 |-> boundary1,
         boundary2 |-> IF same_sign THEN 100 * b ELSE boundary2,
         middle |-> midpoint(boundary1, boundary2),
         n |-> 0,
         widened |-> same_sign]

InitSolver ==
    /\ layers = HomogeneousLayers
    /\ ground_water_level \in {Some(g) : g \in SolverGroundWaterLevels}
    /\ pc = "ready"
    /\ ret = NoCall
    /\ NoCollection
    /\ call \in EffectiveDepthCalls
    /\ outcome = NotReturned
    /\ solver = NoSolver

\* f(middle) of the loop as it stands
AtMiddle ==
    get_difference(solver.middle, solver.f, call.foundation_data.foundation_width,
                   call.foundation_data.foundation_depth,
                   call.foundation_data.foundation_length, layers, ground_water_level)

\* calc_effective_depth down to the loop of find_effective_depth
CalcEffectiveDepth ==
    /\ call.fn = "calc_effective_depth" /\ outcome = NotReturned /\ solver = NoSolver
    /\ LET valid == validate_input(layers, ground_water_level, call.foundation_data,
                                    call.foundation_pressure)
           df == call.foundation_data.foundation_depth
           b == call.foundation_data.foundation_width
           l == call.foundation_data.foundation_length
           normal_stress == calc_normal_stress(layers, ground_water_level, df)
           q_net == call.foundation_pressure - normal_stress.value
           f == q_net * b * l
       IN  IF valid # Ok
           THEN outcome' = valid /\ solver' = solver
           ELSE IF normal_stress.panicked
           THEN outcome' = [status |-> "panicked"] /\ solver' = solver
           ELSE /\ outcome' = outcome
                /\ solver' = find_effective_depth(f, b, df, l, layers, ground_water_level)
    /\ UNCHANGED <<call, profile_vars, collection_vars>>

\* while get_difference(middle).abs() > 0.01 && n < 100
LoopGoesOn ==
    /\ solver.pc = "loop"
    /\ exceeds_tolerance(AtMiddle)
    /\ within_iteration_cap(solver.n)

\* boundary1 == boundary2 && boundary1 == middle && n > 10, n being counted
Collapsed ==
    /\ solver.boundary1 = solver.boundary2
    /\ solver.boundary1 = solver.middle
    /\ solver.n + 1 > 10

\* one pass of the loop that moves a boundary
Iterate ==
    /\ LoopGoesOn /\ ~Collapsed
    /\ LET boundary1 == IF is_positive(AtMiddle) THEN solver.middle ELSE solver.boundary1
           boundary2 == IF is_positive(AtMiddle) THEN solver.boundary2 ELSE solver.middle
       IN  solver' = [solver EXCEPT !.n = solver.n + 1,
                                    !.boundary1 = boundary1,
                                    !.boundary2 = boundary2,
                                    !.middle = midpoint(boundary1, boundary2)]
    /\ UNCHANGED <<call, outcome, profile_vars, collection_vars>>

\* the pass of the loop that returns 0.0
ReturnZero ==
    /\ LoopGoesOn /\ Collapsed
    /\ solver' = [solver EXCEPT !.n = solver.n + 1, !.pc = "collapsed"]
    /\ outcome' = ReturnedValue(0)
    /\ UNCHANGED <<call, profile_vars, collection_vars>>

\* the loop is left and middle is returned
ReturnMiddle ==
    /\ solver.pc = "loop" /\ ~LoopGoesOn
    /\ solver' = [solver EXCEPT !.pc = "left"]
    /\ outcome' = ReturnedValue(solver.middle)
    /\ UNCHANGED <<call, profile_vars, collection_vars>>

NextSolver ==
    \/ CalcEffectiveDepth
    \/ Iterate
    \/ ReturnZero
    \/ ReturnMiddle

SpecSolver == InitSolver /\ [][NextSolver]_vars

\* the call runs on: nothing suspends it
SpecSolverFair == SpecSolver /\ WF_vars(NextSolver)

----------------------------------------------------------------------------
(* Properties of the profile, checked under SpecProfile *)

Max(a, b) == IF a >= b THEN a ELSE b

Min(a, b) == IF a <= b THEN a ELSE b

RECURSIVE SumOver(_, _)
\* the sum of f[i] over the finite set S of indices
SumOver(f, S) ==
    IF S = {} THEN 0
    ELSE LET i == CHOOSE x \in S : TRUE IN f[i] + SumOver(f, S \ {i})

LayerIndices == 1 .. Len(layers)

Thickness(i) == unwrap(layers[i].thickness)

Bottom(i) == unwrap(layers[i].depth)

Top(i) == IF i = 1 THEN 0 ELSE Bottom(i - 1)

ProfileBottom == Bottom(Len(layers))

Gwl == unwrap(ground_water_level)

AllThicknessesPositive == \A i \in LayerIndices : Thickness(i) > 0

NormalStress(d) == calc_normal_stress(layers, ground_water_level, d)

\* C1: on a profile with computed depths, positive thicknesses and GWL >= 0,
\* a calc_normal_stress call that returns, returns 0 at depth 0 and no less
\* than calc_normal_stress gives at any smaller depth, also below the profile
\* bottom.
C1_NormalStressNonDecreasing ==
    (DepthsComputed /\ AllThicknessesPositive /\ Gwl >= 0
        /\ ret.op = "calc_normal_stress" /\ ~ret.panicked) =>
        /\ ret.depth = 0 => ret.value = 0
        /\ \A d1 \in QueryDepths :
              d1 <= ret.depth =>
                  /\ ~NormalStress(d1).panicked
                  /\ NormalStress(d1).value <= ret.value

\* a two-layer profile, water table inside it, queried below its bottom
C1_Witness ==
    /\ DepthsComputed /\ AllThicknessesPositive /\ Len(layers) = 2 /\ Gwl = 3
    /\ ret.op = "calc_normal_stress" /\ ~ret.panicked
    /\ ret.depth > ProfileBottom
    /\ ret.value > NormalStress(ProfileBottom).value
    /\ NormalStress(ProfileBottom).value > 0

\* C2: the effective stress a calc_effective_stress call gives at a depth is
\* the normal stress at that depth when the depth is not below GWL, and below
\* GWL it is strictly less, by exactly (depth - GWL) x 0.981; the call aborts
\* exactly when calc_normal_stress does.
C2_EffectiveStressIsNormalMinusPore ==
    (DepthsComputed /\ ret.op = "calc_effective_stress") =>
        LET d == ret.depth
            n == NormalStress(d)
        IN  /\ ret.panicked = n.panicked
            /\ ~n.panicked =>
                  /\ d <= Gwl => ret.value = n.value
                  /\ d > Gwl => /\ ret.value < n.value
                                /\ n.value - ret.value = (d - Gwl) * WaterUnitWeight

\* an effective stress returned for a depth below a water table that is
\* itself below the surface
C2_Witness ==
    /\ DepthsComputed /\ Gwl = 3
    /\ ret.op = "calc_effective_stress" /\ ~ret.panicked
    /\ ret.depth > Gwl
    /\ ret.value < NormalStress(ret.depth).value

\* the layers, by index from 0, whose bottom depth is at or below the query
LayersReaching(q) == {i \in 0 .. Len(layers) - 1 : Bottom(i + 1) >= q}

\* C3: get_layer_index returns the smallest index whose bottom depth is >= the
\* query, and the last index when no layer reaches the query; a query equal to
\* the bottom depth of a layer that no earlier layer reaches returns that
\* layer; get_layer_at_depth returns the layer at the index.
C3_LayerIndexIsFirstReaching ==
    (DepthsComputed /\ ret.op = "get_layer_index") =>
        LET q == ret.depth
            index == ret.value
        IN  /\ LayersReaching(q) = {} => index = Len(layers) - 1
            /\ LayersReaching(q) # {} =>
                  /\ index \in LayersReaching(q)
                  /\ \A j \in LayersReaching(q) : index <= j
            /\ \A i \in LayerIndices :
                  (q = Bottom(i) /\ \A j \in 1 .. i - 1 : Bottom(j) < q) => index = i - 1
            /\ get_layer_at_depth(layers, q) = layers[index + 1]

\* a query at the boundary between two layers that returned the upper one
C3_Witness ==
    /\ DepthsComputed /\ AllThicknessesPositive /\ Len(layers) = 2
    /\ ret.op = "get_layer_index" /\ ret.depth = Bottom(1) /\ ret.value = 0

PrefixThickness(i) == SumOver([j \in LayerIndices |-> Thickness(j)], 1 .. i)

\* C4: after calc_layer_depths every layer's depth is the sum of the
\* thicknesses down to it and its center is the previous bottom plus half its
\* thickness, whatever they held before; depths are strictly increasing; and
\* calc_layer_depths run again changes nothing.
C4_DepthsComputedAndIncreasing ==
    pc = "ready" =>
        /\ \A i \in LayerIndices :
              /\ layers[i].depth = Some(PrefixThickness(i))
              /\ layers[i].center = Some(Top(i) + Thickness(i) \div 2)
        /\ \A i \in LayerIndices : i > 1 => Bottom(i - 1) < Bottom(i)
        /\ calc_layer_depths(layers) = layers

\* C5: calc_layer_depths (and SoilProfile::new) never returns, with depths
\* assigned, when some layer has thickness <= 0.
C5_NonPositiveThicknessIsFatal ==
    pc = "ready" => AllThicknessesPositive

\* the length of the part of [lo1, hi1] inside [lo2, hi2]
Overlap(lo1, hi1, lo2, hi2) == Max(0, Min(hi1, hi2) - Max(lo1, lo2))

\* the part of layer i within [0, d] that lies above, and below, GWL
DryLength(i, d) == Overlap(Top(i), Bottom(i), 0, Min(d, Gwl))

SaturatedLength(i, d) == Overlap(Top(i), Bottom(i), Max(0, Gwl), d)

\* C6: calc_normal_stress(d) panics whenever, in some layer it traverses, the
\* weight that governs a part of the layer within [0, d] (dry above GWL,
\* saturated below) does not exceed 1.0 t/m3.
C6_GoverningWeightAtMostOneIsFatal ==
    (DepthsComputed /\ AllThicknessesPositive) =>
        \A d \in QueryDepths :
            (\E i \in LayerIndices :
                \/ DryLength(i, d) > 0
                      /\ unwrap_or(layers[i].dry_unit_weight, 0) <= MinUnitWeight
                \/ SaturatedLength(i, d) > 0
                      /\ unwrap_or(layers[i].saturated_unit_weight, 0) <= MinUnitWeight)
            => NormalStress(d).panicked

\* the dry weight over the part of every layer above GWL plus the saturated
\* weight over the part below, within [0, d]
StressByParts(d) ==
    SumOver([i \in LayerIndices |->
                unwrap_or(layers[i].dry_unit_weight, 0) * DryLength(i, d)
                + unwrap_or(layers[i].saturated_unit_weight, 0) * SaturatedLength(i, d)],
            LayerIndices)

\* C7: for every profile with computed depths and every depth d from 0 to the
\* profile bottom, the stress calc_normal_stress(d) returns is the sum over the
\* layers of dry weight x the part of the layer in [0, d] above GWL plus
\* saturated weight x the part below GWL.
C7_NormalStressIsSumOfParts ==
    DepthsComputed =>
        \A d \in QueryDepths :
            (d <= ProfileBottom /\ ~NormalStress(d).panicked) =>
                NormalStress(d).value = StressByParts(d)

\* C7 for the profiles whose thicknesses are all positive
C7_SumOfPartsForPositiveThicknesses ==
    AllThicknessesPositive => C7_NormalStressIsSumOfParts

\* what layer i weighs over the depths from a down to b: its dry weight
\* over the part above GWL and its saturated weight over the part below
WeightBetween(i, a, b) ==
    unwrap_or(layers[i].dry_unit_weight, 0) * Max(0, Min(b, Gwl) - a)
    + unwrap_or(layers[i].saturated_unit_weight, 0) * Max(0, b - Max(a, Gwl))

\* C29: a calc_normal_stress call for a depth d below the profile bottom
\* fails only where the call for the bottom fails, and is not clamped to the
\* stress at the bottom: it returns calc_normal_stress(bottom) plus what the
\* last layer weighs over (bottom, d], dry above GWL and saturated below;
\* and calc_normal_stress is continuous across every layer boundary: in a
\* layer below the first, the stress is the stress at the layer's top plus
\* what the layer weighs from its top down to d.
C29_LastLayerExtendsBelowTheBottom ==
    (DepthsComputed /\ ret.op = "calc_normal_stress") =>
        LET d == ret.depth
            i == get_layer_index(layers, d) + 1
        IN  /\ d > ProfileBottom =>
                  /\ ret.panicked = NormalStress(ProfileBottom).panicked
                  /\ ~ret.panicked =>
                        ret.value = NormalStress(ProfileBottom).value
                                      + WeightBetween(Len(layers), ProfileBottom, d)
            /\ (~ret.panicked /\ i > 1) =>
                  /\ ~NormalStress(Top(i)).panicked
                  /\ ret.value = NormalStress(Top(i)).value + WeightBetween(i, Top(i), d)

\* C29 for the profiles whose thicknesses are all positive
C29_ExtendsBelowTheBottomForPositiveThicknesses ==
    AllThicknessesPositive => C29_LastLayerExtendsBelowTheBottom

----------------------------------------------------------------------------
(* Properties of the idealization, checked under SpecIdeal *)

IdealizedReturned == idealized.status = "returned"

IdealizedIndices == DOMAIN idealized.records

\* where the source records are: <<experiment, position>>
SourcePositions == UNION {{<<e, i>> : i \in DOMAIN exps[e]} : e \in DOMAIN exps}

SourceRecord(p) == exps[p[1]][p[2]]

SourceDepths == {SourceRecord(p).depth : p \in SourcePositions}

\* C8: for CPT, SPT and point-load collections under every policy, the
\* idealized experiment returned has one record for each distinct depth of a
\* source record, in strictly ascending depth order, and no other depth.
C8_IdealizedDepthsAreSortedUnion ==
    (kind \in {"CPT", "SPT", "PointLoad"} /\ IdealizedReturned) =>
        /\ \A k \in IdealizedIndices :
              k > 1 => idealized.records[k - 1].depth < idealized.records[k].depth
        /\ {idealized.records[k].depth : k \in IdealizedIndices} = SourceDepths

\* two experiments out of depth order that share one of their depths
C8_Witness ==
    /\ kind \in {"CPT", "SPT", "PointLoad"} /\ IdealizedReturned /\ Len(exps) = 2
    /\ Cardinality(SourcePositions) = 3
    /\ Len(idealized.records) = 2
    /\ exps[1][1].depth > exps[2][1].depth

\* the record an experiment is sampled at for a depth: its first record, in
\* sequence order, with depth >= d, and its last record when there is none
NearestRecord(exp, d) ==
    LET reaching == {i \in DOMAIN exp : exp[i].depth >= d}
    IN  IF reaching = {} THEN exp[Len(exp)]
        ELSE exp[CHOOSE i \in reaching : \A j \in reaching : i <= j]

\* v is the reduction of the values (a function on a finite set) by the policy
IsPolicyValue(mode, v, values) ==
    CASE mode = "Min" -> /\ \E x \in DOMAIN values : values[x] = v
                         /\ \A x \in DOMAIN values : v <= values[x]
      [] mode = "Max" -> /\ \E x \in DOMAIN values : values[x] = v
                         /\ \A x \in DOMAIN values : v >= values[x]
      [] mode = "Avg" -> v * Cardinality(DOMAIN values) = SumOver(values, DOMAIN values)

\* C9: in the CPT experiment returned, at every idealized depth d, the cone
\* resistance and the sleeve friction are each the policy reduction (minimum,
\* maximum, arithmetic mean) of the values of every source experiment sampled
\* at d by nearest-depth lookup.
C9_CptReducesNearestSamples ==
    (kind = "CPT" /\ IdealizedReturned) =>
        \A k \in IdealizedIndices :
            LET layer == idealized.records[k]
                sampled(e) == NearestRecord(exps[e], layer.depth)
            IN  /\ IsPolicyValue(idealization_method, layer.cone_resistance,
                                 [e \in DOMAIN exps |-> sampled(e).cone_resistance])
                /\ IsPolicyValue(idealization_method, layer.sleeve_friction,
                                 [e \in DOMAIN exps |-> sampled(e).sleeve_friction])

\* under Min, the second experiment has no layer at depth 1, is sampled at a
\* deeper layer, and that layer's cone resistance is the minimum
C9_Witness ==
    /\ kind = "CPT" /\ IdealizedReturned /\ idealization_method = "Min"
    /\ Len(exps) = 2 /\ Len(exps[1]) = 1 /\ Len(exps[2]) = 1
    /\ exps[1][1].depth = 1 /\ exps[1][1].cone_resistance = 2 * Unit
    /\ \A i \in DOMAIN exps[2] : exps[2][i].depth > 1
    /\ NearestRecord(exps[2], 1).cone_resistance = Unit
    /\ idealized.records[1].depth = 1
    /\ idealized.records[1].cone_resistance = Unit

\* the order of blow counts: Refusal above every count
AtMostN(a, b) == b.tag = "Refusal" \/ (a.tag = "Value" /\ b.tag = "Value" /\ a.n <= b.n)

BlowsOf(n) == IF n.tag = "Refusal" THEN RefusalBlows ELSE n.n

\* n is the reduction of the blow counts by the policy: the least or the
\* greatest in the order, or the mean, Refusal taken as 50, to the nearest
\* integer
IsPolicyNValue(mode, n, values) ==
    CASE mode = "Min" -> /\ \E x \in DOMAIN values : values[x] = n
                         /\ \A x \in DOMAIN values : AtMostN(n, values[x])
      [] mode = "Max" -> /\ \E x \in DOMAIN values : values[x] = n
                         /\ \A x \in DOMAIN values : AtMostN(values[x], n)
      [] mode = "Avg" ->
            LET count == Cardinality(DOMAIN values)
                sum == SumOver([x \in DOMAIN values |-> BlowsOf(values[x])], DOMAIN values)
            IN  /\ n.tag = "Value"
                /\ 2 * count * n.n - 2 * sum > 0 - count
                /\ 2 * count * n.n - 2 * sum <= count

\* an experiment that has records, each deeper than the one before
DepthsAscend(exp) ==
    exp # <<>> /\ \A i \in DOMAIN exp : i > 1 => exp[i - 1].depth < exp[i].depth

\* C10, as claimed: in the SPT and the point-load experiment returned, at
\* every idealized depth d every source experiment contributes the value of
\* its record sampled at d by nearest-depth lookup, and each measured field
\* (n; is50 and d) is the policy reduction of those values.  Stated for the
\* collections whose experiments all have records, in ascending depth order.
C10_SptAndPointLoadSampleEveryExperiment ==
    (kind \in {"SPT", "PointLoad"} /\ IdealizedReturned
        /\ \A e \in DOMAIN exps : DepthsAscend(exps[e])) =>
        \A k \in IdealizedIndices :
            LET record == idealized.records[k]
                sampled(e) == NearestRecord(exps[e], record.depth)
            IN  IF kind = "SPT"
                THEN IsPolicyNValue(idealization_method, record.n,
                                    [e \in DOMAIN exps |-> sampled(e).n])
                ELSE /\ IsPolicyValue(idealization_method, record.is50,
                                      [e \in DOMAIN exps |-> sampled(e).is50])
                     /\ IsPolicyValue(idealization_method, record.d,
                                      [e \in DOMAIN exps |-> sampled(e).d])

\* where the source records with exactly the depth d are
PositionsAt(d) == {p \in SourcePositions : SourceRecord(p).depth = d}

\* C10, amended: in the SPT and the point-load experiment returned, at every
\* idealized depth d the contributions are the source records whose depth is
\* exactly d, one value for each such record and none from an experiment
\* without one; n and is50 are the policy reduction of the contributed values;
\* the point-load d is the mean of the contributed d under Avg and, under Min
\* and Max, the d of a contributing sample that has the emitted is50.
C10_SptAndPointLoadReduceRecordsAtDepth ==
    (kind \in {"SPT", "PointLoad"} /\ IdealizedReturned) =>
        \A k \in IdealizedIndices :
            LET record == idealized.records[k]
                at == PositionsAt(record.depth)
            IN  /\ at # {}
                /\ IF kind = "SPT"
                   THEN IsPolicyNValue(idealization_method, record.n,
                                       [p \in at |-> SourceRecord(p).n])
                   ELSE /\ IsPolicyValue(idealization_method, record.is50,
                                         [p \in at |-> SourceRecord(p).is50])
                        /\ IF idealization_method = "Avg"
                           THEN IsPolicyValue("Avg", record.d,
                                              [p \in at |-> SourceRecord(p).d])
                           ELSE \E p \in at : /\ SourceRecord(p).is50 = record.is50
                                              /\ SourceRecord(p).d = record.d

\* under Min, depth 1 is recorded by the first experiment alone and keeps its
\* count of 15, though the second experiment, sampled at depth 1 by nearest
\* depth, would give the lower count 0
C10_Witness ==
    /\ kind = "SPT" /\ IdealizedReturned /\ idealization_method = "Min"
    /\ exps = <<(<<SPTBlow(1, Value(15))>>), (<<SPTBlow(2, Value(0))>>)>>
    /\ NearestRecord(exps[2], 1).n = Value(0)
    /\ idealized.records[1] = SPTBlow(1, Value(15))

\* the idealized records whose depth exactly one source record has, each with
\* that source record
SingleSourced ==
    {<<k, p>> \in IdealizedIndices \X SourcePositions :
        PositionsAt(idealized.records[k].depth) = {p}}

\* C11, as claimed: in the SPT and the point-load experiment returned, the
\* value at an idealized depth is the reduction over exactly the source
\* records with that depth, and a depth that a single record has keeps that
\* record's value (n; is50 and d) under Min, Avg and Max alike.
C11_SingleRecordKeepsItsValue ==
    (kind \in {"SPT", "PointLoad"} /\ IdealizedReturned) =>
        /\ C10_SptAndPointLoadReduceRecordsAtDepth
        /\ \A kp \in SingleSourced :
              LET record == idealized.records[kp[1]]
                  source == SourceRecord(kp[2])
              IN  IF kind = "SPT" THEN record.n = source.n
                  ELSE record.is50 = source.is50 /\ record.d = source.d

\* C11, amended: the same, but a depth whose single record is a Refusal
\* yields the count 50 under Avg, and Refusal under Min and Max only.
C11_SingleRecordKeepsItsValueButRefusalUnderAvg ==
    (kind \in {"SPT", "PointLoad"} /\ IdealizedReturned) =>
        /\ C10_SptAndPointLoadReduceRecordsAtDepth
        /\ \A kp \in SingleSourced :
              LET record == idealized.records[kp[1]]
                  source == SourceRecord(kp[2])
              IN  IF kind = "SPT"
                  THEN IF idealization_method = "Avg" /\ source.n = Refusal
                       THEN record.n = Value(RefusalBlows)
                       ELSE record.n = source.n
                  ELSE record.is50 = source.is50 /\ record.d = source.d

\* under Avg, depth 1 is recorded by the first experiment alone and keeps its
\* count of 15, and depth 2, recorded by the second alone as a Refusal, gets 50
C11_Witness ==
    /\ kind = "SPT" /\ IdealizedReturned /\ idealization_method = "Avg"
    /\ exps = <<(<<SPTBlow(1, Value(15))>>), (<<SPTBlow(2, Refusal)>>)>>
    /\ Cardinality(SingleSourced) = 2
    /\ idealized.records[1] = SPTBlow(1, Value(15))
    /\ idealized.records[2] = SPTBlow(2, Value(RefusalBlows))

\* the depth and the measured values of a record; for a MASW layer, its
\* thickness, its velocities and its depth
Measured(r) ==
    CASE kind = "CPT" -> <<r.depth, r.cone_resistance, r.sleeve_friction>>
      [] kind = "SPT" -> <<r.depth, r.n>>
      [] kind = "PointLoad" -> <<r.depth, r.is50, r.d>>
      [] kind = "Masw" -> <<r.thickness, r.vs, r.vp, r.depth>>

\* get_idealized_exp was called on a collection of exactly one experiment,
\* whose records come in strictly ascending depth order (MASW: whose
\* thicknesses are positive)
SingleSourceIdealized ==
    /\ idealized # NotIdealized
    /\ Len(exps) = 1
    /\ IF kind = "Masw"
       THEN \A i \in DOMAIN exps[1] : exps[1][i].thickness > 0
       ELSE \A i \in DOMAIN exps[1] : i > 1 => exps[1][i - 1].depth < exps[1][i].depth

\* the idealized experiment has the records of the one source experiment
SameAsSource ==
    /\ IdealizedReturned
    /\ [k \in IdealizedIndices |-> Measured(idealized.records[k])]
           = [i \in DOMAIN exps[1] |-> Measured(exps[1][i])]

\* C12, as claimed: the experiment returned for a collection of exactly one
\* source experiment has, under Min, Avg and Max and for every kind, the
\* depths and the measured values of the source, Refusal included.
C12_IdentityLaw ==
    (SingleSourceIdealized /\ IdealizedReturned) => SameAsSource

\* C12, amended: the identity law holds for CPT, MASW and point-load under
\* every policy and for SPT under Min and Max; SPT under Avg aborts when the
\* source has a blow count of 0 and otherwise returns the source depths with
\* the numeric counts unchanged and every Refusal as the count 50.
C12_IdentityLawButSptAvg ==
    SingleSourceIdealized =>
        IF kind = "SPT" /\ idealization_method = "Avg"
        THEN IF \E i \in DOMAIN exps[1] : BlowsOf(exps[1][i].n) <= 0
             THEN idealized.status = "panicked"
             ELSE /\ IdealizedReturned
                  /\ idealized.records
                         = [i \in DOMAIN exps[1] |->
                               SPTBlow(exps[1][i].depth, Value(BlowsOf(exps[1][i].n)))]
        ELSE SameAsSource

\* one MASW experiment of two layers of different thickness and velocity,
\* idealized under Avg into the same two layers
C12_Witness ==
    /\ kind = "Masw" /\ idealization_method = "Avg" /\ SingleSourceIdealized
    /\ Len(exps[1]) = 2 /\ exps[1][1].thickness # exps[1][2].thickness
    /\ exps[1][1].vs # exps[1][2].vs
    /\ SameAsSource

\* what get_idealized_exp gives for the collection under another policy
IdealizedUnder(mode) ==
    CASE kind = "CPT" -> CPT_get_idealized_exp(exps, mode, idealized.name)
      [] kind = "SPT" -> SPT_get_idealized_exp(exps, mode, idealized.name)
      [] kind = "PointLoad" -> PointLoad_get_idealized_exp(exps, mode, idealized.name)
      [] kind = "Masw" -> Masw_get_idealized_exp(exps, mode, idealized.name).result

\* the measured fields whose values are numbers
NumericFields ==
    CASE kind = "CPT" -> {"cone_resistance", "sleeve_friction"}
      [] kind = "SPT" -> {}
      [] kind = "PointLoad" -> {"is50", "d"}
      [] kind = "Masw" -> {"vs", "vp"}

\* for the experiment returned under Avg and the ones the same collection
\* gives under Min and Max: at every idealized depth the fields are in the
\* order Min <= Avg <= Max, the blow count unless Max selects Refusal
OrderedAcrossPolicies(fields) ==
    LET lo == IdealizedUnder("Min")
        hi == IdealizedUnder("Max")
    IN  /\ lo.status = "returned" /\ hi.status = "returned"
        /\ DOMAIN lo.records = IdealizedIndices /\ DOMAIN hi.records = IdealizedIndices
        /\ \A k \in IdealizedIndices :
              LET min == lo.records[k]
                  avg == idealized.records[k]
                  max == hi.records[k]
              IN  /\ min.depth = avg.depth /\ avg.depth = max.depth
                  /\ \A f \in fields : min[f] <= avg[f] /\ avg[f] <= max[f]
                  /\ kind = "CPT" =>
                        /\ unwrap(min.pore_pressure) <= unwrap(avg.pore_pressure)
                        /\ unwrap(avg.pore_pressure) <= unwrap(max.pore_pressure)
                  /\ (kind = "SPT" /\ max.n # Refusal) =>
                        AtMostN(min.n, avg.n) /\ AtMostN(avg.n, max.n)

ContributingN(d) == {SourceRecord(p).n : p \in PositionsAt(d)}

\* C14: the order on blow counts is total, with Refusal above every numeric
\* value and equal only to itself; in the SPT experiment returned, at each
\* idealized depth Min gives the lowest numeric count among the contributing
\* blows, and Refusal only when all of them are Refusal, and Max gives
\* Refusal when at least one contributing blow is Refusal, otherwise the
\* highest count.
C14_RefusalAboveEveryCount ==
    (kind = "SPT" /\ IdealizedReturned /\ idealization_method \in {"Min", "Max"}) =>
        /\ \A a, b \in NValues :
              /\ NValue_le(a, b) \/ NValue_le(b, a)
              /\ (NValue_le(a, b) /\ NValue_le(b, a)) => a = b
              /\ (a = Refusal /\ b # Refusal) => (NValue_le(b, a) /\ ~NValue_le(a, b))
        /\ \A k \in IdealizedIndices :
              LET n == idealized.records[k].n
                  contributing == ContributingN(idealized.records[k].depth)
                  numeric == {c \in contributing : c # Refusal}
              IN  IF idealization_method = "Min"
                  THEN IF numeric = {} THEN n = Refusal
                       ELSE n \in numeric /\ \A c \in numeric : n.n <= c.n
                  ELSE IF Refusal \in contributing THEN n = Refusal
                       ELSE n \in numeric /\ \A c \in numeric : n.n >= c.n

\* under Min, a depth with a Refusal and a count of 15 gets 15, and a depth
\* with nothing but a Refusal gets Refusal
C14_Witness ==
    /\ kind = "SPT" /\ IdealizedReturned /\ idealization_method = "Min"
    /\ ContributingN(1) = {Refusal, Value(15)}
    /\ ContributingN(2) = {Refusal}
    /\ idealized.records = <<SPTBlow(1, Value(15)), SPTBlow(2, Refusal)>>

\* twice the distance from the count n to the mean of the blows recorded at
\* the depth d, Refusal taken as 50, times the number of those blows
TwiceOffMean(n, d) ==
    2 * (n * Cardinality(PositionsAt(d))
           - SumOver([p \in PositionsAt(d) |-> BlowsOf(SourceRecord(p).n)], PositionsAt(d)))

\* C15: in the SPT experiment returned under Avg, the blow count at every
\* idealized depth is a numeric value, never Refusal: the integer nearest to
\* the arithmetic mean of the contributing counts with every Refusal taken
\* as 50, a mean half-way between two integers going to the upper one.
C15_AvgIsRoundedMeanWithRefusalAsFifty ==
    (kind = "SPT" /\ IdealizedReturned /\ idealization_method = "Avg") =>
        \A k \in IdealizedIndices :
            LET record == idealized.records[k]
                count == Cardinality(PositionsAt(record.depth))
            IN  /\ record.n # Refusal /\ record.n.tag = "Value"
                /\ TwiceOffMean(record.n.n, record.depth) <= count
                /\ TwiceOffMean(record.n.n, record.depth) > 0 - count

\* a Refusal and a count of 15 at one depth: the mean of 50 and 15 is 32.5,
\* and the count emitted is 33
C15_Witness ==
    /\ kind = "SPT" /\ IdealizedReturned /\ idealization_method = "Avg"
    /\ Cardinality(PositionsAt(1)) = 2
    /\ ContributingN(1) = {Refusal, Value(15)}
    /\ idealized.records[1] = SPTBlow(1, Value(33))

\* the cumulative depth of the i-th layer of a MASW experiment
CumulativeDepth(exp, i) == SumOver([j \in DOMAIN exp |-> exp[j].thickness], 1 .. i)

\* the surface and every cumulative depth of every source layer
Boundaries ==
    {0} \cup {CumulativeDepth(exps[p[1]], p[2]) : p \in SourcePositions}

\* the top of the k-th idealized layer: the depth of the layer above it
IdealizedTop(k) == IF k = 1 THEN 0 ELSE unwrap(idealized.records[k - 1].depth)

IdealizedBottom(k) == unwrap(idealized.records[k].depth)

\* C16: the MASW experiment returned for a collection that has experiments
\* partitions [0, deepest cumulative source depth]: its layers are as many
\* as the positive boundaries (the distinct cumulative depths of the source
\* layers), the k-th layer ends at the k-th positive boundary and begins at
\* the boundary before it, with no boundary inside, its thickness is their
\* difference and > 0, and the last layer ends at the deepest source depth.
C16_MaswLayersPartitionTheDepthRange ==
    (kind = "Masw" /\ IdealizedReturned /\ exps # <<>>) =>
        /\ Len(idealized.records) = Cardinality(Boundaries) - 1
        /\ {IdealizedBottom(k) : k \in IdealizedIndices} = Boundaries \ {0}
        /\ \A k \in IdealizedIndices :
              /\ IdealizedTop(k) \in Boundaries
              /\ IdealizedTop(k) < IdealizedBottom(k)
              /\ \A b \in Boundaries : ~(IdealizedTop(k) < b /\ b < IdealizedBottom(k))
              /\ idealized.records[k].thickness = IdealizedBottom(k) - IdealizedTop(k)
              /\ idealized.records[k].thickness > 0
        /\ idealized.records # <<>> =>
              \A b \in Boundaries : b <= IdealizedBottom(Len(idealized.records))

\* a layer of thickness 4 in one experiment and two layers of thickness 2
\* and 4 in the other: three idealized layers, each of thickness 2
C16_Witness ==
    /\ kind = "Masw" /\ IdealizedReturned /\ Len(exps) = 2
    /\ Boundaries = {0, 2, 4, 6}
    /\ Len(exps[1]) = 1 /\ exps[1][1].thickness = 4
    /\ [k \in IdealizedIndices |-> idealized.records[k].thickness] = <<2, 2, 2>>
    /\ IdealizedBottom(3) = 6

\* the layer a MASW experiment is sampled at for a depth, given as twice the
\* depth: its first layer whose cumulative depth is >= the depth, and its
\* last layer when there is none
NearestLayer(exp, twice_d) ==
    LET reaching == {i \in DOMAIN exp : 2 * CumulativeDepth(exp, i) >= twice_d}
    IN  IF reaching = {} THEN exp[Len(exp)]
        ELSE exp[CHOOSE i \in reaching : \A j \in reaching : i <= j]

\* C17: in the MASW experiment returned, vs and vp of every idealized layer
\* [top, bottom] are each the policy reduction of the values of every source
\* experiment sampled at the midpoint (top + bottom) / 2 by nearest-depth
\* lookup.
C17_MaswSamplesAtTheMidpoint ==
    (kind = "Masw" /\ IdealizedReturned) =>
        \A k \in IdealizedIndices :
            LET layer == idealized.records[k]
                sampled(e) == NearestLayer(exps[e], IdealizedTop(k) + IdealizedBottom(k))
            IN  /\ IsPolicyValue(idealization_method, layer.vs,
                                 [e \in DOMAIN exps |-> sampled(e).vs])
                /\ IsPolicyValue(idealization_method, layer.vp,
                                 [e \in DOMAIN exps |-> sampled(e).vp])

\* under Max, the second experiment has a fast layer down to 2 and a slow one
\* below: the idealized layer from 2 to 4 gets the slow vs of the layer at
\* its midpoint, where a sample taken at its top would have given the fast one
C17_Witness ==
    /\ kind = "Masw" /\ IdealizedReturned /\ idealization_method = "Max"
    /\ Len(exps) = 2 /\ Len(exps[1]) = 1 /\ Len(exps[2]) = 2
    /\ exps[1][1].thickness = 4 /\ exps[1][1].vs = Unit
    /\ exps[2][1].thickness = 2 /\ exps[2][1].vs = 2 * Unit
    /\ exps[2][2].thickness = 2 /\ exps[2][2].vs = Unit
    /\ NearestLayer(exps[2], 2 * IdealizedTop(2)).vs = 2 * Unit
    /\ idealized.records[2].vs = Unit

\* C18: a get_idealized_exp call that returns, of whatever kind and on
\* whatever collection, leaves every field of every source experiment and
\* record, the recorded depths included, and the idealization method as they
\* were.
C18_IdealizationLeavesSourcesUnchanged ==
    [][(idealized' # idealized /\ idealized'.status = "returned") =>
          (exps' = exps /\ idealization_method' = idealization_method)]_vars

\* C19: on a collection with no source experiments, get_idealized_exp(name)
\* of every kind and under every policy returns, without aborting, an
\* experiment that carries the given name and has no records.
C19_EmptyCollectionGivesEmptyNamedExperiment ==
    [][exps = <<>> =>
          \E name \in Names :
              /\ \/ IdealizeCPT(name)
                 \/ IdealizeSPT(name)
                 \/ IdealizePointLoad(name)
                 \/ IdealizeMasw(name)
              /\ idealized' = [status |-> "returned", name |-> name, records |-> <<>>]]_vars

\* an SPT collection without experiments, for which the code has no separate
\* branch, idealized under the second name
C19_Witness ==
    /\ kind = "SPT" /\ exps = <<>>
    /\ idealized = [status |-> "returned", name |-> "Ideal_B", records |-> <<>>]

\* the mean of the blows recorded at the depth d, Refusal taken as 50, is
\* below one half, so that it rounds to zero
MeanRoundsToZero(d) ==
    2 * SumOver([p \in PositionsAt(d) |-> BlowsOf(SourceRecord(p).n)], PositionsAt(d))
        < Cardinality(PositionsAt(d))

\* C28: SPT::get_idealized_exp under Avg aborts whenever the rounded mean of
\* the blow counts at some idealized depth is zero or less, as when every
\* blow recorded at that depth is Value(0); on the same collection Min and
\* Max return normally.
C28_AvgAbortsOnMeanOfZero ==
    (kind = "SPT" /\ idealized # NotIdealized) =>
        /\ (idealization_method = "Avg" /\ \E d \in SourceDepths : MeanRoundsToZero(d))
               => idealized = PanickedExp
        /\ idealization_method \in {"Min", "Max"} => IdealizedReturned
        /\ IdealizedUnder("Min").status = "returned"
        /\ IdealizedUnder("Max").status = "returned"

\* a depth whose two blows are both Value(0) beside a depth with a count of
\* 15: Avg has aborted
C28_Witness ==
    /\ kind = "SPT" /\ idealization_method = "Avg" /\ idealized = PanickedExp
    /\ Cardinality(PositionsAt(1)) = 2 /\ ContributingN(1) = {Value(0)}
    /\ ContributingN(2) = {Value(15)}

\* the orders the n experiments of a collection can be listed in
Orders(n) == {f \in [1 .. n -> 1 .. n] : \A i, j \in 1 .. n : i # j => f[i] # f[j]}

\* what get_idealized_exp gives for the experiments es under the policy and
\* the name of the call made
IdealizedFrom(es) ==
    CASE kind = "CPT" -> CPT_get_idealized_exp(es, idealization_method, idealized.name)
      [] kind = "SPT" -> SPT_get_idealized_exp(es, idealization_method, idealized.name)
      [] kind = "PointLoad" ->
            PointLoad_get_idealized_exp(es, idealization_method, idealized.name)
      [] kind = "Masw" ->
            Masw_get_idealized_exp(es, idealization_method, idealized.name).result

\* C30: the idealized experiment does not depend on the order of the source
\* experiments: for every kind, every policy and every permutation of the
\* same experiments get_idealized_exp returns the same depths and the same
\* value of every field, the point-load d included.
C30_OrderOfExperimentsDoesNotMatter ==
    IdealizedReturned =>
        \A f \in Orders(Len(exps)) :
            IdealizedFrom([e \in DOMAIN exps |-> exps[f[e]]]) = idealized

----------------------------------------------------------------------------
(* Properties of the record lookup, checked under SpecLookup *)

\* the experiment looked up in, and the depth of its i-th record
LookedUp == exps[1]

RecordDepth(i) == IF kind = "Masw" THEN unwrap(LookedUp[i].depth) ELSE LookedUp[i].depth

\* a lookup was made in an experiment that has records, each with its depth
LookupMade ==
    /\ ret.op = "get_layer_at_depth"
    /\ LookedUp # <<>>
    /\ kind = "Masw" => \A i \in DOMAIN LookedUp : LookedUp[i].depth # None

\* C20: a lookup at depth q in a non-empty experiment (CPT layers, MASW
\* layers, point-load samples) does not fail and returns the first record in
\* sequence order whose depth is >= q, so the record of depth q itself when
\* no record before it reaches q, and the last record when q is deeper than
\* every record.
C20_LookupReturnsFirstRecordAtOrBelow ==
    LookupMade =>
        LET q == ret.depth
            reaching == {i \in DOMAIN LookedUp : RecordDepth(i) >= q}
        IN  /\ ~ret.panicked
            /\ reaching = {} => ret.value = LookedUp[Len(LookedUp)]
            /\ reaching # {} =>
                  \E i \in reaching : /\ \A j \in reaching : i <= j
                                        /\ ret.value = LookedUp[i]
            /\ \A i \in DOMAIN LookedUp :
                  (RecordDepth(i) = q /\ \A j \in 1 .. i - 1 : RecordDepth(j) < q)
                      => ret.value = LookedUp[i]

\* a point-load experiment of two samples queried below both: the second
\* sample is returned
C20_Witness ==
    /\ kind = "PointLoad" /\ LookupMade /\ ~ret.panicked
    /\ Len(LookedUp) = 2 /\ LookedUp[1] # LookedUp[2]
    /\ \A i \in DOMAIN LookedUp : RecordDepth(i) < ret.depth
    /\ ret.value = LookedUp[2]

----------------------------------------------------------------------------
(* Properties of the NValue arithmetic, checked under SpecNValue *)

\* a number of tenths with its fractional part dropped
Truncated(tenths) ==
    IF tenths >= 0 THEN tenths \div Tenths ELSE 0 - ((0 - tenths) \div Tenths)

\* C27: scaling or offsetting a numeric blow count truncates the fractional
\* part: Value(n) times a factor f gives Value(trunc(n x f)) and Value(n)
\* plus a real x gives Value(trunc(n + x)); Refusal scaled or offset stays
\* Refusal, and the sum of two blow counts is Refusal when either is.
C27_ScalingAndOffsettingTruncate ==
    outcome # NotReturned =>
        /\ (call.fn = "mul_by_f64" /\ call.self.tag = "Value") =>
              outcome.value = Value(Truncated(call.self.n * call.other))
        /\ (call.fn = "add_f64" /\ call.self.tag = "Value") =>
              outcome.value = Value(Truncated(call.self.n * Tenths + call.other))
        /\ (call.fn \in {"mul_by_f64", "add_f64"} /\ call.self = Refusal) =>
              outcome.value = Refusal
        /\ (call.fn = "sum_with" /\ Refusal \in {call.self, call.other}) =>
              outcome.value = Refusal

\* what the operations do give: a product or a sum with a fractional part
\* goes up to the next integer, so that it is the truncated value only when
\* it is whole or below zero; the Refusal rules are as C27 has them
C27_ScalingAndOffsettingRoundUp ==
    outcome # NotReturned =>
        LET exact == IF call.fn = "mul_by_f64" THEN call.self.n * call.other
                     ELSE call.self.n * Tenths + call.other
        IN  /\ (call.fn \in {"mul_by_f64", "add_f64"} /\ call.self.tag = "Value") =>
                  /\ outcome.value.tag = "Value"
                  /\ outcome.value.n * Tenths >= exact
                  /\ outcome.value.n * Tenths < exact + Tenths
                  /\ (exact % Tenths = 0 \/ exact < 0) =>
                        outcome.value.n = Truncated(exact)
            /\ (call.fn \in {"mul_by_f64", "add_f64"} /\ call.self = Refusal) =>
                  outcome.value = Refusal
            /\ (call.fn = "sum_with" /\ Refusal \in {call.self, call.other}) =>
                  outcome.value = Refusal

----------------------------------------------------------------------------
(* Properties of validate_field, checked under SpecValidate *)

\* value >= bound and value <= bound as f64 has them: false for NaN
AtLeast(value, bound) == ~value.nan /\ ~bound.nan /\ value.v >= bound.v

AtMost(value, bound) == ~value.nan /\ ~bound.nan /\ value.v <= bound.v

\* the code '<prefix>.<field>.<reason>' of the call made
CodeOf(reason) == call.error_code_prefix \o "." \o call.field_name \o "." \o reason

\* the error codes of the call made, by the claim's precedence: missing
\* before too_small before too_large
ErrorCodeIsAsClaimed ==
    /\ call.value = None => outcome.code = CodeOf("missing")
    /\ (call.value # None /\ call.min # None /\ lt(unwrap(call.value), unwrap(call.min))) =>
          outcome.code = CodeOf("too_small." \o Display(unwrap(call.min)))
    /\ (call.value # None /\ call.max # None /\ gt(unwrap(call.value), unwrap(call.max))
          /\ ~(call.min # None /\ lt(unwrap(call.value), unwrap(call.min)))) =>
          outcome.code = CodeOf("too_large." \o Display(unwrap(call.max)))

\* C22: validate_field returns Ok exactly when the value is present, is >=
\* min when a min is given and <= max when a max is given; otherwise it
\* returns an error whose code is '<prefix>.<field>.missing' for an absent
\* value, '<prefix>.<field>.too_small.<min>' for value < min and
\* '<prefix>.<field>.too_large.<max>' for value > max, missing before
\* too_small before too_large.
C22_OkExactlyWithinBounds ==
    outcome # NotReturned =>
        /\ outcome = Ok <=>
              /\ call.value # None
              /\ call.min # None => AtLeast(unwrap(call.value), unwrap(call.min))
              /\ call.max # None => AtMost(unwrap(call.value), unwrap(call.max))
        /\ outcome # Ok => (outcome.status = "Err" /\ ErrorCodeIsAsClaimed)

\* the value and the bounds given are numbers
Comparable == \A o \in {call.value, call.min, call.max} : o # None => ~unwrap(o).nan

\* C22 for values and bounds that are not NaN
C22_OkExactlyWithinBoundsForNumbers ==
    Comparable => C22_OkExactlyWithinBounds

----------------------------------------------------------------------------
(* Properties of compute_equivalent_unit_weights, checked under            *)
(* SpecEquivalent                                                          *)

\* twice the distance, times the length, from the weight returned to the
\* mean over [0, length] of the layers' weights of one kind
TwiceOffWeightedMean(returned, weight(_), length) ==
    2 * (returned * length
           - SumOver([i \in LayerIndices |-> weight(i) * Overlap(Top(i), Bottom(i), 0, length)],
                     LayerIndices))

\* the weight returned is the mean over [0, length], rounded to 0.001
IsRoundedWeightedMean(returned, weight(_), length) ==
    /\ TwiceOffWeightedMean(returned, weight, length) <= length
    /\ TwiceOffWeightedMean(returned, weight, length) > 0 - length

DryWeight(i) == unwrap(layers[i].dry_unit_weight)

SaturatedWeight(i) == unwrap(layers[i].saturated_unit_weight)

\* C23: for depth_limit > 0, compute_equivalent_unit_weights returns the
\* thickness-weighted means of the dry and of the saturated unit weights
\* over [0, min(depth_limit, profile bottom)], each rounded to 3 decimals,
\* whatever the GWL: the layer holding depth_limit counts with its part
\* above it, and a depth_limit below the bottom averages the whole profile.
C23_EquivalentWeightsAreWeightedMeans ==
    (call.fn = "compute_equivalent_unit_weights" /\ outcome # NotReturned
        /\ call.depth_limit > 0) =>
        LET length == Min(call.depth_limit, ProfileBottom)
        IN  /\ outcome.status = "returned"
            /\ length > 0
            /\ IsRoundedWeightedMean(outcome.value[1], DryWeight, length)
            /\ IsRoundedWeightedMean(outcome.value[2], SaturatedWeight, length)

\* C23 for the profiles whose thicknesses are all positive
C23_WeightedMeansForPositiveThicknesses ==
    AllThicknessesPositive => C23_EquivalentWeightsAreWeightedMeans

\* Scenario B: 3 m of dry 1.7 / saturated 1.9 over 2 m of dry 1.8 /
\* saturated 2.0, GWL 0, asked for a depth limit of 5 m
ScenarioB ==
    /\ Len(layers) = 2
    /\ Thickness(1) = 6 /\ DryWeight(1) = 1700 /\ SaturatedWeight(1) = 1900
    /\ Thickness(2) = 4 /\ DryWeight(2) = 1800 /\ SaturatedWeight(2) = 2000
    /\ Gwl = 0
    /\ call.fn = "compute_equivalent_unit_weights" /\ call.depth_limit = 10
    /\ outcome # NotReturned

\* the weights returned are within 0.001 of the pair given
WithinOneThousandth(dry, saturated) ==
    /\ outcome.status = "returned"
    /\ outcome.value[1] - dry \in -1 .. 1
    /\ outcome.value[2] - saturated \in -1 .. 1

\* C24: in Scenario B compute_equivalent_unit_weights returns (1.78, 1.98)
\* to within 0.001.
C24_ScenarioB ==
    ScenarioB => WithinOneThousandth(1780, 1980)

\* C24, amended: in Scenario B compute_equivalent_unit_weights returns
\* (1.74, 1.94), the means of 1.7 over 3 m and 1.8 over 2 m and of 1.9 over
\* 3 m and 2.0 over 2 m.
C24_ScenarioBGivesTheWeightedMean ==
    ScenarioB => outcome = ReturnedValue(<<1740, 1940>>)

\* the call of Scenario B has returned
C24_Witness ==
    ScenarioB /\ outcome.value = <<1740, 1940>>

----------------------------------------------------------------------------
(* Properties of calc_effective_depth, checked under SpecSolver *)

FoundationDepth == call.foundation_data.foundation_depth

FoundationWidth == call.foundation_data.foundation_width

\* find_effective_depth has returned
SolverReturned == solver.pc \in {"left", "collapsed"}

\* f at the returned depth
AtReturnedDepth ==
    get_difference(outcome.value, solver.f, FoundationWidth, FoundationDepth,
                   call.foundation_data.foundation_length, layers, ground_water_level)

\* C21: what find_effective_depth returns is either a depth z >= df with
\* |f(z)| <= 0.01, or exactly 0.0; and it returns 0.0 for the vanished
\* bracket only after more than 10 iterations, with both boundaries and the
\* midpoint identical.
C21_ReturnsARootOrZero ==
    SolverReturned =>
        \/ /\ outcome.value >= FoundationDepth
           /\ AtReturnedDepth.kind = "finite"
           /\ ~exceeds_tolerance(AtReturnedDepth)
        \/ /\ outcome.value = 0
           /\ solver.pc = "collapsed"
           /\ solver.n > 10
           /\ solver.boundary1 = solver.boundary2
           /\ solver.boundary1 = solver.middle

\* C25: the loop of find_effective_depth terminates for every input: the
\* call returns, and by then the loop has made at most 100 iterations.
C25_LoopTerminatesWithin100Iterations ==
    (call.fn = "calc_effective_depth" /\ outcome = NotReturned)
        ~> (outcome # NotReturned /\ (solver # NoSolver => solver.n <= 100))

\* a call that returned after the hundredth iteration
C25_Witness ==
    /\ solver.pc = "left"
    /\ solver.n = 100
    /\ outcome.status = "returned"

\* C26: a depth find_effective_depth returns from its loop lies within the
\* bracket the loop used: [df, df + 1.5 B] when f changes sign over it, and
\* otherwise the widened bracket from df to 100 B.
C26_ReturnedDepthWithinBracket ==
    solver.pc = "left" =>
        /\ outcome.value >= FoundationDepth
        /\ outcome.value <= (IF solver.widened
                             THEN 100 * FoundationWidth
                             ELSE FoundationDepth + (3 * FoundationWidth) \div 2)

====
